---- MODULE Spec2Model ----
(***************************************************************************)
(* Model of paperless-scanner: the document-session store                  *)
(* (src/document-session.ts), the scanner registry, the settings manager   *)
(* and the scan pipeline (src/scanner-manager.ts).                         *)
(*                                                                         *)
(* Files are named by records instead of strings:                          *)
(*   [prefix, ts, page, ext, tmp]  stands for                              *)
(*   <prefix><ts>[-p<page>].<ext>[.tmp]                                    *)
(* so that startsWith / endsWith tests of the code are tests on fields.    *)
(* A path is [dir, name].  The filesystem fs maps the existing paths to    *)
(* [size, mtime].                                                          *)
(***************************************************************************)
EXTENDS Integers, Sequences, FiniteSets, TLC

VARIABLES
    fs,                  \* the filesystem: existing path -> [size, mtime]
    settings,            \* SettingsManager.settings
    configFile,          \* the settings as persisted in config/config.json
    sessions,            \* DocumentSessionManager.sessions: id -> pages
    reply,               \* the last operation, its session and the error it returned ("": none)
    cachedScanner,       \* ScannerManager.cachedScanner
    lastSuccessfulScan,  \* ScannerManager.lastSuccessfulScan
    now,                 \* the wall clock, in ms
    scan,                \* the scan request in flight (startPageScan/scanPage)
    upload               \* the combine-and-upload request in flight (combineAndUpload)

vars == <<fs, settings, configFile, sessions, reply, cachedScanner, lastSuccessfulScan, now, scan,
          upload>>

registryVars == <<cachedScanner, lastSuccessfulScan>>

(***************************************************************************)
(* Bounds of the model.                                                    *)
(***************************************************************************)
MaxPages == 2        \* pages the sessions hold together before addPage is no longer tried
MaxReorder == 2      \* length of the id lists given to reorder
MaxBatch == 2        \* files one duplex batch writes
MaxScans == 2        \* scan requests in one behaviour

(***************************************************************************)
(* Names, paths, files.                                                    *)
(***************************************************************************)
Null == [null |-> TRUE]

ScanName(ts, ext) == [prefix |-> "scan-", ts |-> ts, page |-> 0, ext |-> ext, tmp |-> FALSE]
TempName(ts, ext) == [prefix |-> "scan-", ts |-> ts, page |-> 0, ext |-> ext, tmp |-> TRUE]
BatchName(ts, k, ext) == [prefix |-> "scan-", ts |-> ts, page |-> k, ext |-> ext, tmp |-> FALSE]
OtherName(ts, ext) == [prefix |-> "notes-", ts |-> ts, page |-> 0, ext |-> ext, tmp |-> FALSE]

Path(dir, name) == [dir |-> dir, name |-> name]

Exists(f, p) == p \in DOMAIN f
Unlink(f, p) == [q \in DOMAIN f \ {p} |-> f[q]]
UnlinkAll(f, P) == [q \in DOMAIN f \ P |-> f[q]]
WriteFile(f, p, size, mtime) ==
    [q \in DOMAIN f \cup {p} |-> IF q = p THEN [size |-> size, mtime |-> mtime] ELSE f[q]]
Rename(f, from, to) ==
    [q \in (DOMAIN f \ {from}) \cup {to} |-> IF q = to THEN f[from] ELSE f[q]]

\* fs.readdirSync: the names of a directory.  The order of the listing is
\* taken to be the order of the names (by stamp, page index, suffix).
NameKey(n) == n.ts * 100 + n.page * 10 + (IF n.tmp THEN 1 ELSE 0)

RECURSIVE SeqOfNames(_)
SeqOfNames(S) ==
    IF S = {} THEN <<>>
    ELSE LET m == CHOOSE x \in S : \A y \in S : NameKey(x) <= NameKey(y)
         IN <<m>> \o SeqOfNames(S \ {m})

readdirSync(f, dir) == SeqOfNames({p.name : p \in {q \in DOMAIN f : q.dir = dir}})

\* The directories that exist: the two the output directory is set to.
ExistingDirs == {"/tmp", "alt"}

Range(s) == {s[i] : i \in DOMAIN s}

(***************************************************************************)
(* DocumentSessionManager                                                  *)
(***************************************************************************)
validExtensions == {"pdf", "tiff", "png", "jpeg", "jpg"}

\* file.startsWith('scan-') && validExtensions.some(ext => file.endsWith(ext))
IsScanFile(name) == name.prefix = "scan-" /\ ~name.tmp /\ name.ext \in validExtensions

\* generateId: an id no page of any session carries.  Ids are numbered, and
\* the smallest free number stands for the fresh random string.
UsedIds(ss) == UNION {{pg.id : pg \in Range(ss[s])} : s \in DOMAIN ss}

RECURSIVE generateIds(_, _)
generateIds(n, used) ==
    IF n = 0 THEN <<>>
    ELSE LET i == CHOOSE k \in 1..(Cardinality(used) + 1) :
                     k \notin used /\ \A j \in 1..(k - 1) : j \in used
         IN <<i>> \o generateIds(n - 1, used \cup {i})

\* Array.prototype.sort by timestamp: stable.
RECURSIVE SortByTimestamp(_, _)
SortByTimestamp(recs, I) ==
    IF I = {} THEN <<>>
    ELSE LET m == CHOOSE i \in I : \A j \in I :
                     \/ recs[i].timestamp < recs[j].timestamp
                     \/ recs[i].timestamp = recs[j].timestamp /\ i <= j
         IN <<recs[m]>> \o SortByTimestamp(recs, I \ {m})

\* pages.forEach((p, index) => p.pageNumber = index + 1): an object listed
\* twice keeps the number written last.  Page objects are told apart by id.
Renumber(pages) ==
    [i \in 1..Len(pages) |->
        [pages[i] EXCEPT !.pageNumber =
            CHOOSE j \in 1..Len(pages) :
                /\ pages[j].id = pages[i].id
                /\ \A k \in 1..Len(pages) : pages[k].id = pages[i].id => k <= j]]

\* loadSessions: the filesystem and the session map after it ran.
LoadResult(f, ss, dir) ==
    LET listing == SelectSeq(readdirSync(f, dir), IsScanFile)
        nonEmpty == SelectSeq(listing, LAMBDA n : f[Path(dir, n)].size # 0)
        zero == {Path(dir, listing[i]) : i \in {k \in 1..Len(listing) : f[Path(dir, listing[k])].size = 0}}
        ids == generateIds(Len(nonEmpty), UsedIds(ss))
        scanFiles == [i \in 1..Len(nonEmpty) |->
                        [id |-> ids[i],
                         filename |-> nonEmpty[i],
                         filepath |-> Path(dir, nonEmpty[i]),
                         timestamp |-> f[Path(dir, nonEmpty[i])].mtime,
                         size |-> f[Path(dir, nonEmpty[i])].size,
                         pageNumber |-> 0]]
        sorted == SortByTimestamp(scanFiles, 1..Len(scanFiles))
        numbered == [i \in 1..Len(sorted) |-> [sorted[i] EXCEPT !.pageNumber = i]]
    IN IF dir \notin ExistingDirs THEN [fs |-> f, sessions |-> ss] ELSE
       [fs |-> UnlinkAll(f, zero),
        sessions |-> IF Len(numbered) > 0
                     THEN [s \in DOMAIN ss \cup {"default"} |->
                              IF s = "default" THEN numbered ELSE ss[s]]
                     ELSE ss]

\* getSession(sessionId) || null, after loadSessions.
HasSession(ss, sid) == sid \in DOMAIN ss

Pages(ss, sid) == IF sid \in DOMAIN ss THEN ss[sid] ELSE <<>>

PutSession(ss, sid, pages) ==
    [s \in DOMAIN ss \cup {sid} |-> IF s = sid THEN pages ELSE ss[s]]

\* A request string names a page by id or by filepath; it is never both.
IdArg(i) == [kind |-> "id", id |-> i]
PathArg(p) == [kind |-> "path", path |-> p]
MatchesId(pg, x) == x.kind = "id" /\ x.id = pg.id
MatchesPath(pg, x) == x.kind = "path" /\ x.path = pg.filepath

\* pages.findIndex(test), 0 standing for -1; tests[i] is test(pages[i]).
FindIndex(tests) ==
    IF \E i \in 1..Len(tests) : tests[i]
    THEN CHOOSE i \in 1..Len(tests) : tests[i] /\ \A j \in 1..(i - 1) : ~tests[j]
    ELSE 0

\* pages.splice(index, 1)
Splice(pages, index) ==
    [i \in 1..(Len(pages) - 1) |-> IF i < index THEN pages[i] ELSE pages[i + 1]]

\* addPageToSession
addPageToSession(f, ss, dir, sessionId, pageFilepath) ==
    LET L == LoadResult(f, ss, dir)
        session == IF HasSession(L.sessions, sessionId) THEN L.sessions[sessionId] ELSE <<>>
    IN IF ~Exists(L.fs, pageFilepath)
       THEN [fs |-> L.fs, sessions |-> L.sessions,
             success |-> FALSE, error |-> "Page file not found"]
       ELSE IF L.fs[pageFilepath].size = 0
       THEN [fs |-> Unlink(L.fs, pageFilepath), sessions |-> L.sessions,
             success |-> FALSE, error |-> "Page file is empty"]
       ELSE LET pageInfo ==
                    [id |-> generateIds(1, UsedIds(ss) \cup UsedIds(L.sessions))[1],
                     filename |-> pageFilepath.name,
                     filepath |-> pageFilepath,
                     timestamp |-> L.fs[pageFilepath].mtime,
                     size |-> L.fs[pageFilepath].size,
                     pageNumber |-> Len(session) + 1]
            IN [fs |-> L.fs,
                sessions |-> PutSession(L.sessions, sessionId, Append(session, pageInfo)),
                success |-> TRUE, error |-> ""]

\* removePageFromSession
removePageFromSession(f, ss, dir, sessionId, pageIdOrPath) ==
    LET L == LoadResult(f, ss, dir)
    IN IF ~HasSession(L.sessions, sessionId)
       THEN [fs |-> L.fs, sessions |-> L.sessions,
             success |-> FALSE, error |-> "Session not found"]
       ELSE
       LET pages == L.sessions[sessionId]
           byId == FindIndex([i \in 1..Len(pages) |-> MatchesId(pages[i], pageIdOrPath)])
           pageIndex == IF byId # 0 THEN byId
                        ELSE FindIndex([i \in 1..Len(pages) |-> MatchesPath(pages[i], pageIdOrPath)])
       IN IF pageIndex = 0
          THEN [fs |-> L.fs, sessions |-> L.sessions,
                success |-> FALSE, error |-> "Page not found"]
          ELSE [fs |-> IF Exists(L.fs, pages[pageIndex].filepath)
                       THEN Unlink(L.fs, pages[pageIndex].filepath) ELSE L.fs,
                sessions |-> PutSession(L.sessions, sessionId,
                                        Renumber(Splice(pages, pageIndex))),
                success |-> TRUE, error |-> ""]

\* A clear that counts the pages of the session instead of the files it
\* removed.
clearSessionCountsPages(f, ss, dir, sessionId, failing) ==
    LET L == LoadResult(f, ss, dir)
    IN IF ~HasSession(L.sessions, sessionId)
       THEN [fs |-> L.fs, sessions |-> L.sessions,
             success |-> FALSE, error |-> "Session not found", deletedCount |-> 0]
       ELSE
       LET deleted == ({pg.filepath : pg \in Range(L.sessions[sessionId])} \cap DOMAIN L.fs)
                          \ failing
       IN [fs |-> UnlinkAll(L.fs, deleted),
           sessions |-> PutSession(L.sessions, sessionId, <<>>),
           success |-> TRUE, error |-> "", deletedCount |-> Len(L.sessions[sessionId])]

\* clearSession; failing are the paths whose unlinkSync throws.  A file is
\* counted when its unlinkSync returned; a file two pages name is gone
\* when the second page is reached.
clearSession(f, ss, dir, sessionId, failing) ==
    LET L == LoadResult(f, ss, dir)
    IN IF ~HasSession(L.sessions, sessionId)
       THEN [fs |-> L.fs, sessions |-> L.sessions,
             success |-> FALSE, error |-> "Session not found", deletedCount |-> 0]
       ELSE
       LET deleted == ({pg.filepath : pg \in Range(L.sessions[sessionId])} \cap DOMAIN L.fs)
                          \ failing
       IN [fs |-> UnlinkAll(L.fs, deleted),
           sessions |-> PutSession(L.sessions, sessionId, <<>>),
           success |-> TRUE, error |-> "", deletedCount |-> Cardinality(deleted)]

\* reorderPages that drops the ids it does not find instead of rejecting
\* the request.
reorderPagesSkipUnknown(f, ss, dir, sessionId, pageIds) ==
    LET L == LoadResult(f, ss, dir)
        pages == Pages(L.sessions, sessionId)
        known == SelectSeq(pageIds, LAMBDA id : \E i \in 1..Len(pages) : pages[i].id = id)
    IN [fs |-> L.fs,
        sessions |-> PutSession(L.sessions, sessionId,
                        Renumber([i \in 1..Len(known) |->
                            pages[CHOOSE k \in 1..Len(pages) : pages[k].id = known[i]]])),
        success |-> TRUE, error |-> ""]

\* reorderPages
reorderPages(f, ss, dir, sessionId, pageIds) ==
    LET L == LoadResult(f, ss, dir)
    IN IF ~HasSession(L.sessions, sessionId)
       THEN [fs |-> L.fs, sessions |-> L.sessions,
             success |-> FALSE, error |-> "Session not found"]
       ELSE
       LET pages == L.sessions[sessionId]
           find(pageId) == FindIndex([i \in 1..Len(pages) |-> pages[i].id = pageId])
       IN IF \E i \in 1..Len(pageIds) : find(pageIds[i]) = 0
          THEN [fs |-> L.fs, sessions |-> L.sessions,
                success |-> FALSE, error |-> "Page not found"]
          ELSE LET reorderedPages == [i \in 1..Len(pageIds) |-> pages[find(pageIds[i])]]
               IN [fs |-> L.fs,
                   sessions |-> PutSession(L.sessions, sessionId, Renumber(reorderedPages)),
                   success |-> TRUE, error |-> ""]

(***************************************************************************)
(* SettingsManager                                                         *)
(***************************************************************************)
\* The fields of Settings the model follows.
DEFAULT_SETTINGS ==
    [paperlessApiUrl |-> "http://192.168.177.168:8000",
     paperlessApiToken |-> "",
     scanOutputDir |-> "/tmp",
     scanResolution |-> 300,
     scannerDeviceUrl |-> "",
     duplex |-> FALSE,
     outputFormat |-> "tiff"]

\* { ...this.settings, ...newSettings }
Merge(old, new) ==
    [k \in DOMAIN old \cup DOMAIN new |-> IF k \in DOMAIN new THEN new[k] ELSE old[k]]

\* The URLs that match /^https?:\/\/.+/ among those the model uses.
HttpUrls == {"http://192.168.177.168:8000"}

\* validate: the errors it collects.
validate(st) ==
    (IF st.paperlessApiUrl = "" THEN {"Paperless API URL is required"}
     ELSE IF st.paperlessApiUrl \notin HttpUrls
          THEN {"Paperless API URL must be a valid HTTP/HTTPS URL"} ELSE {})
    \cup (IF st.paperlessApiToken = "" THEN {"Paperless API Token is required"} ELSE {})
    \cup (IF st.scanOutputDir = "" THEN {"Scan output directory is required"} ELSE {})
    \cup (IF st.scanResolution < 75 \/ st.scanResolution > 1200
          THEN {"Scan resolution must be between 75 and 1200 DPI"} ELSE {})
    \cup (IF st.outputFormat # "" /\ st.outputFormat \notin {"pdf", "tiff", "png", "jpeg"}
          THEN {"Output format must be one of: pdf, tiff, png, jpeg"} ELSE {})

\* The settings as the configuration file of a set-up service gives them.
ConfiguredSettings == Merge(DEFAULT_SETTINGS, [paperlessApiToken |-> "token"])

\* The request in flight.  pc is the await the request stands at:
\*   Detecting   detectScanners of scanPage
\*   Capturing   execAsync(cmd), first run
\*   Recovering  attemptFix
\*   Retrying    execAsync(cmd), second run
\*   Done        startPageScan has returned
\* written counts the files the batch command wrote, images those of them
\* that hold an image;
\* captures and fixes count the runs of the capture command and the calls
\* of attemptFix of the request, failure is the message of the first failed
\* capture, fixed the result of attemptFix, retried the message of the
\* failed second capture, result the error the request ended with ("" for
\* none).
IdleScan ==
    [pc |-> "Idle", n |-> 0, settings |-> DEFAULT_SETTINGS, scanner |-> Null,
     scannerDevice |-> "", timestamp |-> -1, opened |-> FALSE, written |-> 0, images |-> 0,
     captures |-> 0, fixes |-> 0, failure |-> "", fixed |-> "", retried |-> "",
     result |-> "", files |-> <<>>]

\* The combine-and-upload request in flight.  pc is the await the request
\* stands at:
\*   Merging    combinePdfPages (an await of pdf-lib inside the loop) or
\*              combineTiffPages (img2pdf runs)
\*   Saving     combinePdfPages at combinedPdf.save()
\*   Uploading  paperlessAPI.uploadDocument
\*   Done       combineAndUpload has returned
\* pages are the filepaths of the page list the merge holds, k the index of
\* the next page of the loop, content the pages copied so far, inputFiles
\* the files given to img2pdf, combinedPath the output of the merge.
\* started and listed record what existed and what get listed when the
\* merge began; n counts the requests.
IdleUpload ==
    [pc |-> "Idle", n |-> 0, sid |-> "", format |-> "", dir |-> "", pages |-> <<>>, k |-> 0,
     content |-> <<>>, inputFiles |-> <<>>, combinedPath |-> Null, result |-> "",
     started |-> {}, listed |-> <<>>]

(***************************************************************************)
(* The store's operations as actions.                                      *)
(***************************************************************************)
SessionIds == {"default", "s1"}

BogusId == 0

\* What a client can send as a page id: an id some session shows, or
\* a string that is no page's id.
KnownIds(sid) == (IF sid \in DOMAIN sessions THEN {pg.id : pg \in Range(sessions[sid])} ELSE {}) \cup {BogusId}

AllPaths == DOMAIN fs

IdLists(sid) == UNION {[1..n -> KnownIds(sid)] : n \in 0..MaxReorder}

\* Ids are opaque strings: only their equality is ever read.  A state is
\* kept up to a renaming of the ids, the ids being numbered in the order in
\* which the sessions list them.
SessionOrder == <<"default", "s1">>

RECURSIVE AllPages(_, _)
AllPages(ss, order) ==
    IF order = <<>> THEN <<>>
    ELSE (IF Head(order) \in DOMAIN ss THEN ss[Head(order)] ELSE <<>>)
         \o AllPages(ss, Tail(order))

CanonicalIds(ss) ==
    LET all == AllPages(ss, SessionOrder)
        first(id) == CHOOSE i \in 1..Len(all) :
                        all[i].id = id /\ \A j \in 1..(i - 1) : all[j].id # id
        rank(id) == Cardinality({all[j].id : j \in 1..first(id)})
    IN [s \in DOMAIN ss |->
          [i \in 1..Len(ss[s]) |-> [ss[s][i] EXCEPT !.id = rank(ss[s][i].id)]]]

others == <<cachedScanner, lastSuccessfulScan, now, scan, upload>>

GetSession(sid) ==
    LET L == LoadResult(fs, sessions, settings.scanOutputDir)
    IN /\ fs' = L.fs
       /\ sessions' = CanonicalIds(L.sessions)
       /\ reply' = [op |-> "getSession", sid |-> sid,
                    error |-> IF HasSession(L.sessions, sid) THEN "" ELSE "Session not found"]
       /\ UNCHANGED <<settings, configFile, others>>

GetSessions ==
    LET L == LoadResult(fs, sessions, settings.scanOutputDir)
    IN /\ fs' = L.fs
       /\ sessions' = CanonicalIds(L.sessions)
       /\ reply' = [op |-> "getSessions", sid |-> "", error |-> ""]
       /\ UNCHANGED <<settings, configFile, others>>

Respond(op, sid, r) ==
    /\ fs' = r.fs
    /\ sessions' = CanonicalIds(r.sessions)
    /\ reply' = [op |-> op, sid |-> sid, error |-> r.error]
    /\ UNCHANGED <<settings, configFile, others>>

AddPage(sid, path) ==
    /\ Len(AllPages(sessions, SessionOrder)) < MaxPages
    /\ Respond("addPage", sid, addPageToSession(fs, sessions, settings.scanOutputDir, sid, path))

RemovePage(sid, x) ==
    Respond("removePage", sid, removePageFromSession(fs, sessions, settings.scanOutputDir, sid, x))

Clear(sid, failing) ==
    \E r \in {clearSession(fs, sessions, settings.scanOutputDir, sid, failing)} :
       /\ fs' = r.fs
       /\ sessions' = CanonicalIds(r.sessions)
       /\ reply' = [op |-> "clear", sid |-> sid, error |-> r.error,
                    deletedCount |-> r.deletedCount]
       /\ UNCHANGED <<settings, configFile, others>>

Reorder(sid, ids) ==
    Respond("reorder", sid, reorderPages(fs, sessions, settings.scanOutputDir, sid, ids))

\* POST /api/settings: update, which saves, and then validate.
UpdateSettings(newSettings) ==
    /\ settings' = Merge(settings, newSettings)
    /\ configFile' = settings'
    /\ reply' = [op |-> "settings", sid |-> "",
                 error |-> IF validate(settings') = {} THEN "" ELSE "Validation failed"]
    /\ UNCHANGED <<fs, sessions, others>>

(***************************************************************************)
(* The session store on its own: SpecStore.                                *)
(***************************************************************************)

P1 == Path("/tmp", ScanName(1, "pdf"))
P2 == Path("/tmp", ScanName(2, "pdf"))

File(size, mtime) == [size |-> size, mtime |-> mtime]

\* The directories the service may find when it starts.
\* "/tmp" holds up to two scan files, in either order of modification time,
\* each of them possibly empty; "alt" is empty.
InitialFs ==
    {f \in UNION {[D -> {File(0, 1), File(1, 1), File(1, 2), File(1, 3)}] : D \in SUBSET {P1, P2}} :
        /\ P1 \in DOMAIN f => f[P1].mtime # 2
        /\ P2 \in DOMAIN f => f[P2] \in {File(0, 1), File(1, 2)}}

InitStore ==
    /\ \E d \in {"/tmp", "alt"} : settings = Merge(ConfiguredSettings, [scanOutputDir |-> d])
    /\ configFile = settings
    /\ \E f \in InitialFs :
          LET L == LoadResult(f, <<>>, settings.scanOutputDir)
          IN fs = L.fs /\ sessions = CanonicalIds(L.sessions)
    /\ reply = [op |-> "init", sid |-> "", error |-> ""]
    /\ cachedScanner = Null
    /\ lastSuccessfulScan = Null
    /\ now = 0
    /\ scan = IdleScan
    /\ upload = IdleUpload

NextStore ==
    \/ \E sid \in SessionIds : GetSession(sid)
    \/ GetSessions
    \/ \E sid \in SessionIds, p \in AllPaths \cup {P1} : AddPage(sid, p)
    \/ \E sid \in SessionIds : \E i \in KnownIds(sid) : RemovePage(sid, IdArg(i))
    \/ \E sid \in SessionIds, p \in AllPaths \cup {P1} : RemovePage(sid, PathArg(p))
    \/ \E sid \in SessionIds : \E failing \in {{}, {P1}} : Clear(sid, failing)
    \/ \E sid \in SessionIds : \E ids \in IdLists(sid) : Reorder(sid, ids)
    \/ \E d \in {"/tmp", "alt"} : UpdateSettings([scanOutputDir |-> d])

SpecStore == InitStore /\ [][NextStore]_vars

(***************************************************************************)
(* Claims about the session store.                                         *)
(***************************************************************************)
\* A page list as a reader sees it: the files in order, with their numbers.
PagesView(ss, sid) ==
    [i \in 1..Len(Pages(ss, sid)) |->
        [filepath |-> Pages(ss, sid)[i].filepath, pageNumber |-> Pages(ss, sid)[i].pageNumber]]

\* C1: in every state the page numbers of every session, read in list
\* order, are 1, 2, ..., N.
C1_PageNumbersContiguous ==
    \A sid \in DOMAIN sessions :
        \A i \in 1..Len(sessions[sid]) : sessions[sid][i].pageNumber = i

\* The id list names an id that no page of the session carries.
HasUnknownId(sid, ids) ==
    \E i \in 1..Len(ids) : ids[i] \notin {pg.id : pg \in Range(Pages(sessions, sid))}

\* C7 as claimed: reorder with an unknown id returns an error and leaves
\* the session's page list, order and numbers as they were before the call.
\* (A step that answers a reorder is a step of Reorder on the session of
\* the reply.)
C7_ReorderUnknownIdLeavesSession ==
    [][reply'.op = "reorder" =>
          \A sid \in {reply'.sid} : \A ids \in IdLists(sid) :
             (Reorder(sid, ids) /\ HasUnknownId(sid, ids)) =>
                 /\ reply'.error # ""
                 /\ PagesView(sessions', sid) = PagesView(sessions, sid)]_vars

\* C7 amended: reorder with an unknown id returns an error and does nothing
\* but the reload every read does: all sessions and the filesystem are as
\* loadSessions leaves them, and a session other than the default one keeps
\* the page list it had before the call.
C7_ReorderUnknownIdOnlyReloads ==
    [][reply'.op = "reorder" =>
          \A sid \in {reply'.sid} : \A ids \in IdLists(sid) :
             (Reorder(sid, ids) /\ HasUnknownId(sid, ids)) =>
                 LET L == LoadResult(fs, sessions, settings.scanOutputDir)
                 IN /\ reply'.error \in {"Session not found", "Page not found"}
                    /\ DOMAIN sessions' = DOMAIN L.sessions
                    /\ \A s \in SessionIds : PagesView(sessions', s) = PagesView(L.sessions, s)
                    /\ fs' = L.fs
                    /\ sid # "default" => PagesView(sessions', sid) = PagesView(sessions, sid)]_vars

\* C7 witness: a reorder of a session that holds two pages was rejected
\* for an unknown id.
C7_Witness ==
    /\ reply.op = "reorder"
    /\ reply.error = "Page not found"
    /\ Len(Pages(sessions, reply.sid)) >= 2

\* C20: addPage on a path that does not exist returns an error and leaves
\* the session and the filesystem as they were; on an empty file it deletes
\* the file, returns 'Page file is empty' and leaves the pages of the
\* session as they were; on any other file it appends one record for the
\* file, numbered one more than the pages the session had, behind the
\* records the session had.
C20_AddPageValidatesThenAppends ==
    [][reply'.op = "addPage" =>
          \A sid \in {reply'.sid} : \A p \in AllPaths \cup {P1} :
             AddPage(sid, p) =>
                LET before == PagesView(sessions, sid)
                    after == PagesView(sessions', sid)
                IN IF ~Exists(fs, p)
                   THEN reply'.error # "" /\ after = before /\ fs' = fs
                   ELSE IF fs[p].size = 0
                   THEN /\ reply'.error = "Page file is empty"
                        /\ ~Exists(fs', p)
                        /\ after = before
                   ELSE /\ reply'.error = ""
                        /\ Len(after) = Len(before) + 1
                        /\ after[Len(after)] = [filepath |-> p, pageNumber |-> Len(before) + 1]
                        /\ SubSeq(after, 1, Len(before)) = before]_vars

\* The files of a page list, in order.
FilesView(pages) == [i \in 1..Len(pages) |-> pages[i].filepath]

\* C21: removePage(sessionId, x) on a session that exists removes the page
\* whose id is x, or else the first page whose filepath is x: the file of
\* that page is deleted and no other, and the list is the one before
\* without that entry; when
\* no page matches it returns 'Page not found' and deletes nothing.
C21_RemoveByIdThenPath ==
    [][reply'.op = "removePage" =>
          \A sid \in {reply'.sid} :
             \A x \in {IdArg(i) : i \in KnownIds(sid)} \cup {PathArg(p) : p \in AllPaths \cup {P1}} :
                (RemovePage(sid, x) /\ HasSession(sessions, sid)) =>
                   LET pages == Pages(sessions, sid)
                       byId == FindIndex([i \in 1..Len(pages) |-> MatchesId(pages[i], x)])
                       k == IF byId # 0 THEN byId
                            ELSE FindIndex([i \in 1..Len(pages) |-> MatchesPath(pages[i], x)])
                   IN IF k = 0
                      THEN reply'.error = "Page not found" /\ fs' = fs
                      ELSE /\ reply'.error = ""
                           /\ DOMAIN fs' = DOMAIN fs \ {pages[k].filepath}
                           /\ FilesView(Pages(sessions', sid)) = FilesView(Splice(pages, k))]_vars

\* C22: clear(sessionId) on the session as the reload leaves it removes
\* every page file whose deletion does not fail, and no other file, leaves
\* the session with no page whether or not a deletion failed, and returns
\* as deletedCount the number of files it removed.
C22_ClearDeletesAndCounts ==
    [][(reply'.op = "clear" /\ reply'.error = "") =>
          \A sid \in {reply'.sid} : \A failing \in {{}, {P1}} :
             Clear(sid, failing) =>
                LET L == LoadResult(fs, sessions, settings.scanOutputDir)
                    files == Range(FilesView(Pages(L.sessions, sid)))
                    removed == DOMAIN L.fs \ DOMAIN fs'
                IN /\ Pages(sessions', sid) = <<>>
                   /\ removed = (files \cap DOMAIN L.fs) \ failing
                   /\ reply'.deletedCount = Cardinality(removed)]_vars

\* C22 witness: a clear of a session of two pages removed one file, the
\* deletion of the other having failed, and left the session empty.
C22_Witness ==
    /\ reply.op = "clear" /\ reply.error = ""
    /\ reply.deletedCount = 1
    /\ Pages(sessions, reply.sid) = <<>>
    /\ P1 \in DOMAIN fs /\ P2 \notin DOMAIN fs

\* The non-empty scan artifacts of a directory.
ScanArtifacts(f, dir) ==
    {p \in DOMAIN f : p.dir = dir /\ IsScanFile(p.name) /\ f[p].size # 0}

\* C8: after get(id) or list() the default session's pages are exactly the
\* non-empty scan artifacts of the configured output directory, in
\* modification-time order.
C8_ReadsRebuildFromFilesystem ==
    reply.op \in {"getSession", "getSessions"} =>
        LET pages == Pages(sessions, "default")
            expected == ScanArtifacts(fs, settings.scanOutputDir)
        IN /\ {pages[i].filepath : i \in 1..Len(pages)} = expected
           /\ Len(pages) = Cardinality(expected)
           /\ \A i, j \in 1..Len(pages) :
                 i < j => fs[pages[i].filepath].mtime <= fs[pages[j].filepath].mtime

\* C9: every page record lies in the configured output directory, addPage
\* registers no file outside it, removePage and clear delete none outside it.
C9_OnlyOutputDirFiles ==
    /\ [](\A sid \in DOMAIN sessions : \A i \in 1..Len(sessions[sid]) :
             sessions[sid][i].filepath.dir = settings.scanOutputDir)
    /\ [][/\ (reply'.op = "addPage" /\ reply'.error = "") =>
                 sessions'[reply'.sid][Len(sessions'[reply'.sid])].filepath.dir
                     = settings.scanOutputDir
          /\ reply'.op \in {"removePage", "clear"} =>
                 \A p \in DOMAIN fs \ DOMAIN fs' : p.dir = settings.scanOutputDir]_vars

\* C10: every page record refers to a file that exists and is not empty.
C10_PagesReferToNonEmptyFiles ==
    \A sid \in DOMAIN sessions : \A i \in 1..Len(sessions[sid]) :
        /\ sessions[sid][i].filepath \in DOMAIN fs
        /\ fs[sessions[sid][i].filepath].size > 0

\* The files of a page list are the non-empty scan artifacts of the output
\* directory, in modification-time order.
IsReconstruction(files) ==
    LET expected == ScanArtifacts(fs, settings.scanOutputDir)
    IN /\ Range(files) = expected
       /\ Len(files) = Cardinality(expected)
       /\ \A i, j \in 1..Len(files) : i < j => fs[files[i]].mtime <= fs[files[j]].mtime

\* C30: get(id) never answers that the session is missing, for any id, and
\* the session get(id) returns, like the one addPage(id, file) appended to,
\* is the reconstruction from the output directory numbered from 1.
C30_AnySessionIdIsReconstructed ==
    /\ reply.op = "getSession" =>
          /\ reply.error # "Session not found"
          /\ IsReconstruction(FilesView(Pages(sessions, reply.sid)))
    /\ (reply.op = "addPage" /\ reply.error = "") =>
          LET pages == Pages(sessions, reply.sid)
          IN /\ IsReconstruction(FilesView(SubSeq(pages, 1, Len(pages) - 1)))
             /\ \A i \in 1..Len(pages) : pages[i].pageNumber = i

(***************************************************************************)
(* ScannerManager                                                          *)
(***************************************************************************)
\* new Date(ms): a date is kept as the record of its time value.
Date(ms) == [time |-> ms]

\* The limit that also trusts a scan exactly one hour old.
hourAgoInclusive(t) == Date(t - 60 * 60 * 1000 - 1)

\* new Date(Date.now() - 60 * 60 * 1000)
hourAgo(t) == Date(t - 60 * 60 * 1000)

\* getCachedScanner at time t.
getCachedScanner(cached, last, t) ==
    IF cached # Null /\ last # Null
    THEN IF last.time > hourAgo(t).time THEN cached ELSE Null
    ELSE Null

\* Two devices a listing can show.
ScannerA ==
    [device |-> "epson2:libusb:001:004", vendor |-> "Epson", model |-> "PerfectionV19",
     type |-> "flatbed", available |-> TRUE]
ScannerB ==
    [device |-> "pixma:04A91757", vendor |-> "CANON", model |-> "PIXMA MG5200",
     type |-> "multi-function", available |-> TRUE]

\* The lines `scanimage -L` can print, by what detectScanners reads in them:
\*   blank      only white space
\*   none       carries 'No scanners were identified'
\*   text       not blank, without the word 'device'
\*   badDevice  has the word 'device', the pattern does not match
\*   device     a device line; scanner is what the pattern and the
\*              description yield
BlankLine == [kind |-> "blank", scanner |-> Null]
NoneLine == [kind |-> "none", scanner |-> Null]
TextLine == [kind |-> "text", scanner |-> Null]
BadDeviceLine == [kind |-> "badDevice", scanner |-> Null]
DeviceLine(sc) == [kind |-> "device", scanner |-> sc]

Lines == {BlankLine, NoneLine, TextLine, BadDeviceLine, DeviceLine(ScannerA), DeviceLine(ScannerB)}

\* What running `scanimage -L` gives: an error of exec (error # ""), or
\* the two outputs.
ExecErrors == {"scanimage: command not found", "no SANE devices found", "timed out"}

\* message.includes(needle), for the messages and needles of the model.
Includes(message, needle) ==
    \/ message = needle
    \/ message = "scanimage: command not found" /\ needle = "not found"

\* stdout.includes('No scanners were identified')
HasNoneLine(out) == \E i \in 1..Len(out) : out[i].kind = "none"

\* stdout.split('\n').filter(line => line.trim())
NonBlank(out) == SelectSeq(out, LAMBDA l : l.kind # "blank")

\* The parse loop: the scanners of the lines that match, in order.
RECURSIVE ParseLines(_)
ParseLines(lines) ==
    IF lines = <<>> THEN <<>>
    ELSE (IF Head(lines).kind = "device" THEN <<Head(lines).scanner>> ELSE <<>>)
         \o ParseLines(Tail(lines))

\* The answer from the cache, or the given error when the cache is not
\* trusted.
FallBack(cached, last, t, error) ==
    LET c == getCachedScanner(cached, last, t)
    IN IF c # Null
       THEN [scanners |-> <<c>>, error |-> "", cachedScanner |-> cached,
             lastSuccessfulScan |-> last]
       ELSE [scanners |-> <<>>, error |-> error, cachedScanner |-> cached,
             lastSuccessfulScan |-> last]

\* The outer catch of detectScanners.
DetectionError(cached, last, errorMsg) ==
    [scanners |-> <<>>, cachedScanner |-> cached, lastSuccessfulScan |-> last,
     error |-> IF Includes(errorMsg, "scanimage: command not found") \/ Includes(errorMsg, "not found")
               THEN "SANE tools not installed"
               ELSE IF Includes(errorMsg, "no SANE devices found")
               THEN "No SANE devices found"
               ELSE "Scanner detection failed"]

\* A cache write that also stamps the time of the listing.
cacheFirstAndStamp(scanners, last, t) ==
    [scanners |-> scanners, error |-> "", cachedScanner |-> scanners[1],
     lastSuccessfulScan |-> Date(t)]

\* if (scanners[0]) { this.cachedScanner = scanners[0] }; return { scanners }
cacheFirst(scanners, last, t) ==
    [scanners |-> scanners, error |-> "", cachedScanner |-> scanners[1],
     lastSuccessfulScan |-> last]

\* detectScanners on the result of the listing command, at time t: the
\* scanners and the error it returns, the cached scanner and the time of
\* the last successful scan afterwards.
detectScanners(listing, cached, last, t) ==
    IF listing.error # ""
    THEN IF getCachedScanner(cached, last, t) # Null
         THEN FallBack(cached, last, t, "")
         ELSE DetectionError(cached, last, listing.error)
    ELSE IF HasNoneLine(listing.stdout) \/ HasNoneLine(listing.stderr)
    THEN FallBack(cached, last, t, "No scanners detected")
    ELSE IF NonBlank(listing.stdout) = <<>>
    THEN FallBack(cached, last, t, "No output from scanner detection")
    ELSE LET lines == NonBlank(listing.stdout)
             scanners == ParseLines(lines)
         IN IF Len(scanners) = 0 /\ Len(lines) > 0
            THEN [scanners |-> <<>>, error |-> "Could not parse scanner information",
                  cachedScanner |-> cached, lastSuccessfulScan |-> last]
            ELSE IF Len(scanners) = 0
            THEN FallBack(cached, last, t, "No scanners detected")
            ELSE cacheFirst(scanners, last, t)

\* How the two remediation commands of attemptFix end: each returns or
\* rejects on Linux, and neither is run on another platform.
FixSteps ==
    {[restart |-> r, reload |-> m] : r \in {"ok", "error"}, m \in {"ok", "error"}}
       \cup {[restart |-> "skipped", reload |-> "skipped"]}

\* attemptFix without the try around each remediation command: a command
\* that rejects reaches the outer catch.
attemptFixStrict(steps, listing, cached, last, t) ==
    LET detection == detectScanners(listing, cached, last, t)
    IN IF steps.restart = "error" \/ steps.reload = "error"
       THEN [success |-> FALSE, raised |-> FALSE, detections |-> 0, scanners |-> <<>>,
             cachedScanner |-> cached, lastSuccessfulScan |-> last]
       ELSE [success |-> Len(detection.scanners) > 0, raised |-> FALSE, detections |-> 1,
             scanners |-> detection.scanners, cachedScanner |-> detection.cachedScanner,
             lastSuccessfulScan |-> detection.lastSuccessfulScan]

\* attemptFix, given how its remediation commands end and what its
\* detection lists: a rejected command is caught on the spot, then
\* detectScanners runs once and its scanners decide success.  The outer
\* catch turns anything thrown into a result; detections counts the calls
\* of detectScanners.
attemptFix(steps, listing, cached, last, t) ==
    LET detection == detectScanners(listing, cached, last, t)
    IN [success |-> Len(detection.scanners) > 0, raised |-> FALSE, detections |-> 1,
        scanners |-> detection.scanners, cachedScanner |-> detection.cachedScanner,
        lastSuccessfulScan |-> detection.lastSuccessfulScan]

(***************************************************************************)
(* scanPage and startPageScan                                              *)
(***************************************************************************)
NoSane == "no SANE devices found"

\* settings.scannerDeviceUrl.trim(), for the values of the model.
Trim(str) == IF str = " " THEN "" ELSE str

finalFilePath(sc) == Path(sc.settings.scanOutputDir, ScanName(sc.timestamp, sc.settings.outputFormat))
tempFilePath(sc) == Path(sc.settings.scanOutputDir, TempName(sc.timestamp, sc.settings.outputFormat))
batchFilePath(sc, k) == Path(sc.settings.scanOutputDir, BatchName(sc.timestamp, k, sc.settings.outputFormat))

\* f.startsWith(batchPrefix) && f.endsWith(`.${ext}`), over the directory.
BatchFiles(f, sc) ==
    {p \in DOMAIN f : /\ p.dir = sc.settings.scanOutputDir
                      /\ p.name.prefix = "scan-" /\ p.name.ts = sc.timestamp
                      /\ p.name.page > 0 /\ ~p.name.tmp
                      /\ p.name.ext = sc.settings.outputFormat}

\* %d of the batch pattern: the decimal digits scanimage writes for page n.
RECURSIVE Digits(_)
Digits(n) == IF n < 10 THEN <<n>> ELSE Append(Digits(n \div 10), n % 10)

\* parseInt of a text of decimal digits.
RECURSIVE parseInt(_)
parseInt(text) ==
    IF text = <<>> THEN 0
    ELSE parseInt(SubSeq(text, 1, Len(text) - 1)) * 10 + text[Len(text)]

\* a.slice(batchPrefix.length, a.lastIndexOf('.')): the text between the
\* prefix and the extension.
PageText(name) == Digits(name.page)

\* The order of two such texts as strings; the character after the shorter
\* one is the '.' of the extension, which sorts before every digit.
RECURSIVE TextLeq(_, _)
TextLeq(a, b) ==
    IF a = <<>> THEN TRUE
    ELSE IF b = <<>> THEN FALSE
    ELSE IF Head(a) # Head(b) THEN Head(a) < Head(b)
    ELSE TextLeq(Tail(a), Tail(b))

\* The batch files sorted as strings, as sort() without a comparator does.
RECURSIVE SortByName(_)
SortByName(P) ==
    IF P = {} THEN <<>>
    ELSE LET m == CHOOSE p \in P : \A q \in P : TextLeq(PageText(p.name), PageText(q.name))
         IN <<m>> \o SortByName(P \ {m})

\* The batch files sorted by the page number parsed from their names.
RECURSIVE SortByPage(_)
SortByPage(P) ==
    IF P = {} THEN <<>>
    ELSE LET m == CHOOSE p \in P : \A q \in P :
                     parseInt(PageText(p.name)) - parseInt(PageText(q.name)) <= 0
         IN <<m>> \o SortByPage(P \ {m})

\* A capture that renames the temp file whatever its size.
TryCaptureAnySize(f, sc, exit) ==
    IF exit # "" THEN [fs |-> f, error |-> exit, files |-> <<>>]
    ELSE IF ~Exists(f, tempFilePath(sc))
    THEN [fs |-> f, error |-> "Scan failed - no file was created", files |-> <<>>]
    ELSE [fs |-> Rename(f, tempFilePath(sc), finalFilePath(sc)), error |-> "",
          files |-> <<finalFilePath(sc)>>]

\* The statements after `await execAsync(cmd)` of a single-sided capture,
\* up to the return or the throw: exit is the error of the command, "" when
\* it succeeded.
TryCapture(f, sc, exit) ==
    IF exit # "" THEN [fs |-> f, error |-> exit, files |-> <<>>]
    ELSE IF ~Exists(f, tempFilePath(sc))
    THEN [fs |-> f, error |-> "Scan failed - no file was created", files |-> <<>>]
    ELSE IF f[tempFilePath(sc)].size = 0
    THEN [fs |-> Unlink(f, tempFilePath(sc)), error |-> "Scan failed - empty file created",
          files |-> <<>>]
    ELSE [fs |-> Rename(f, tempFilePath(sc), finalFilePath(sc)), error |-> "",
          files |-> <<finalFilePath(sc)>>]

\* The clean-up that leaves the temp file where it is.
KeepTemp(f, sc) == f

\* if (fs.existsSync(tempFilePath)) { if (size === 0) fs.unlinkSync(tempFilePath) }
RemoveZeroByteTemp(f, sc) ==
    IF Exists(f, tempFilePath(sc)) /\ f[tempFilePath(sc)].size = 0
    THEN Unlink(f, tempFilePath(sc)) ELSE f

\* A collection that fails as soon as one batch file is empty.
TryBatchAllOrNothing(f, sc, exit) ==
    LET matchingFiles == SortByPage(BatchFiles(f, sc))
        kept == UnlinkAll(f, {p \in BatchFiles(f, sc) : f[p].size = 0})
    IN IF exit # "" THEN [fs |-> f, error |-> exit, files |-> <<>>]
       ELSE IF matchingFiles = <<>> \/ \E p \in BatchFiles(f, sc) : f[p].size = 0
       THEN [fs |-> kept, error |-> "Duplex scan failed - no files were created", files |-> <<>>]
       ELSE [fs |-> kept, error |-> "", files |-> matchingFiles]

\* The statements after `await execAsync(cmd)` of a duplex capture: the
\* empty batch files are discarded, the others are the pages.
TryBatch(f, sc, exit) ==
    LET matchingFiles == SortByPage(BatchFiles(f, sc))
        scannedFiles == SelectSeq(matchingFiles, LAMBDA p : f[p].size > 0)
        kept == UnlinkAll(f, {p \in BatchFiles(f, sc) : f[p].size = 0})
    IN IF exit # "" THEN [fs |-> f, error |-> exit, files |-> <<>>]
       ELSE IF Len(scannedFiles) = 0
       THEN [fs |-> kept, error |-> "Duplex scan failed - no files were created", files |-> <<>>]
       ELSE [fs |-> kept, error |-> "", files |-> scannedFiles]

\* A clean-up that removes the empty batch files alone.
CleanEmptyBatch(f, sc) == UnlinkAll(f, {p \in BatchFiles(f, sc) : f[p].size = 0})

\* The catch of the duplex capture: every batch file of the request goes.
CleanBatch(f, sc) == UnlinkAll(f, BatchFiles(f, sc))

\* startPageScan after scanPage returned filePaths: each is added to the
\* default session; added holds the filesystem and the sessions so far.
RECURSIVE AddAll(_, _, _)
AddAll(added, dir, filePaths) ==
    IF filePaths = <<>> THEN added
    ELSE AddAll(addPageToSession(added.fs, added.sessions, dir, "default", Head(filePaths)),
                dir, Tail(filePaths))

\* A mark that caches the scanner and keeps the time of the scan before.
markWithoutTime(scanner, t) == [cachedScanner |-> scanner, lastSuccessfulScan |-> lastSuccessfulScan]

\* markSuccessfulScan at time t.
markSuccessfulScan(scanner, t) == [cachedScanner |-> scanner, lastSuccessfulScan |-> Date(t)]

\* The request as it ends: error is what scanPage threw, "" when it
\* returned files.
Ended(sc, files, error) == [sc EXCEPT !.pc = "Done", !.result = error, !.files = files]

\* The catch of the second run that would start the recovery again.
retryCatchFixesAgain(f, sc, retryErr) ==
    IF Includes(retryErr, NoSane)
    THEN [fs |-> RemoveZeroByteTemp(f, sc),
          scan |-> [sc EXCEPT !.pc = "Recovering", !.fixes = @ + 1, !.retried = retryErr]]
    ELSE [fs |-> RemoveZeroByteTemp(f, sc),
          scan |-> Ended([sc EXCEPT !.retried = retryErr], <<>>, "Scan failed after fix attempt")]

\* The catch of the second run: the request fails.
retryCatch(f, sc, retryErr) ==
    [fs |-> RemoveZeroByteTemp(f, sc),
     scan |-> Ended([sc EXCEPT !.retried = retryErr], <<>>, "Scan failed after fix attempt")]

\* The catch of the first single-sided run, up to its await or its throw.
singleCatch(f, sc, errorMsg) ==
    LET cleaned == RemoveZeroByteTemp(f, sc)
        failed == [sc EXCEPT !.failure = errorMsg]
    IN IF Includes(errorMsg, NoSane)
       THEN [fs |-> cleaned, scan |-> [failed EXCEPT !.pc = "Recovering", !.fixes = @ + 1]]
       ELSE [fs |-> RemoveZeroByteTemp(cleaned, sc), scan |-> Ended(failed, <<>>, "Scan failed")]

\* The catch of the duplex run.
duplexCatch(f, sc, errorMsg) ==
    [fs |-> CleanBatch(f, sc),
     scan |-> Ended([sc EXCEPT !.failure = errorMsg], <<>>, "Duplex scan failed")]

\* What follows attemptFix.
afterFix(sc, fixResult) ==
    IF fixResult.success
    THEN [sc EXCEPT !.pc = "Retrying", !.fixed = "success", !.captures = @ + 1, !.opened = FALSE]
    ELSE Ended([sc EXCEPT !.fixed = "failure"], <<>>, "Scanner not available")

(***************************************************************************)
(* Scanning as actions: SpecScan.                                          *)
(* One scan request is followed at a time; its awaits are the points at    *)
(* which the other requests and the scanner's processes take their steps.  *)
(***************************************************************************)
MaxLines == 1        \* lines of output of `scanimage -L`

Outputs == UNION {[1..n -> Lines] : n \in 0..MaxLines}

Listings ==
    {[error |-> e, stdout |-> <<>>, stderr |-> <<>>] : e \in ExecErrors}
    \cup {[error |-> "", stdout |-> out, stderr |-> err] :
            out \in Outputs, err \in {<<>>, <<NoneLine>>}}

\* How the capture command can end: "" for exit status 0.
Exits == {"", NoSane, "scanimage: sane_start: Invalid argument"}

\* The instants the clock is read at: the first two and those one hour
\* after them, so that two of them lie less than, exactly, and more than one
\* hour apart.
TimePoints == {0, 1, 60 * 60 * 1000, 60 * 60 * 1000 + 1}

\* The reply of a step that answers no request.
Quiet == [op |-> "", sid |-> "", error |-> ""]

Tick(t) ==
    /\ t > now
    /\ now' = t
    /\ reply' = Quiet
    /\ UNCHANGED <<fs, settings, configFile, sessions, registryVars, scan, upload>>

\* How a listing fails to show a device, "" when it shows one:
\*   command   the listing command errors
\*   message   an output carries 'No scanners were identified'
\*   empty     the standard output is empty or blank
\*   unparsed  the standard output is not blank, and no line of it parses
FailureOf(listing) ==
    IF listing.error # "" THEN "command"
    ELSE IF HasNoneLine(listing.stdout) \/ HasNoneLine(listing.stderr) THEN "message"
    ELSE IF \A i \in 1..Len(listing.stdout) : listing.stdout[i].kind = "blank" THEN "empty"
    ELSE IF \A i \in 1..Len(listing.stdout) : listing.stdout[i].kind # "device" THEN "unparsed"
    ELSE ""

\* GET /api/scanners; the reply keeps how the listing failed as listed.
Detect(listing) ==
    LET detection == detectScanners(listing, cachedScanner, lastSuccessfulScan, now)
    IN /\ cachedScanner' = detection.cachedScanner
       /\ lastSuccessfulScan' = detection.lastSuccessfulScan
       /\ reply' = [op |-> "detect", sid |-> "", error |-> detection.error,
                    scanners |-> detection.scanners, listed |-> FailureOf(listing)]
       /\ UNCHANGED <<fs, settings, configFile, sessions, now, scan, upload>>

\* POST /scan: validate, then startPageScan up to the first await of
\* scanPage.  A request takes its stamp later than the one before it.
StartScan ==
    /\ scan.pc \in {"Idle", "Done"}
    /\ scan.n < MaxScans
    /\ now > scan.timestamp
    /\ IF validate(settings) # {}
       THEN /\ reply' = [op |-> "scan", sid |-> "", error |-> "Configuration error"]
            /\ UNCHANGED scan
       ELSE /\ reply' = [op |-> "scan", sid |-> "", error |-> ""]
            /\ scan' =
                 LET sc == [IdleScan EXCEPT !.n = scan.n + 1, !.settings = settings]
                 IN IF Trim(settings.scannerDeviceUrl) # ""
                    THEN [sc EXCEPT !.pc = "Capturing", !.timestamp = now, !.captures = 1,
                                    !.scannerDevice = Trim(settings.scannerDeviceUrl)]
                    ELSE [sc EXCEPT !.pc = "Detecting"]
    /\ UNCHANGED <<fs, settings, configFile, sessions, registryVars, now, upload>>

\* scanPage that answers a detection without scanners with attemptFix.
afterDetectionRecovers(sc, detection, t) ==
    IF Len(detection.scanners) = 0
    THEN [sc EXCEPT !.pc = "Recovering", !.fixes = @ + 1]
    ELSE [sc EXCEPT !.pc = "Capturing", !.timestamp = t, !.captures = 1,
                    !.scanner = detection.scanners[1],
                    !.scannerDevice = detection.scanners[1].device]

\* scanPage after `await scannerManager.detectScanners()`: without a
\* scanner it throws 'Scanner not available: <error>', else it goes on to
\* the capture with the first scanner.
afterDetection(sc, detection, t) ==
    IF Len(detection.scanners) = 0
    THEN Ended(sc, <<>>, "Scanner not available")
    ELSE [sc EXCEPT !.pc = "Capturing", !.timestamp = t, !.captures = 1,
                    !.scanner = detection.scanners[1],
                    !.scannerDevice = detection.scanners[1].device]

\* detection.error || "No scanners found"
DetectionDetail(detection) ==
    IF Len(detection.scanners) > 0 THEN ""
    ELSE IF detection.error = "" THEN "No scanners found" ELSE detection.error

\* scanPage from the end of detectScanners to the start of the capture.
DetectDone(listing) ==
    /\ scan.pc = "Detecting"
    /\ LET detection == detectScanners(listing, cachedScanner, lastSuccessfulScan, now)
       IN /\ cachedScanner' = detection.cachedScanner
          /\ lastSuccessfulScan' = detection.lastSuccessfulScan
          /\ scan' = afterDetection(scan, detection, now)
          /\ reply' = [op |-> "scanPage", sid |-> "",
                       error |-> IF scan'.pc = "Done" THEN scan'.result ELSE "",
                       detail |-> DetectionDetail(detection)]
    /\ UNCHANGED <<fs, settings, configFile, sessions, now, upload>>

\* The shell of a single-sided capture opens the file of `> tempFilePath`.
ShellOpens ==
    /\ scan.pc \in {"Capturing", "Retrying"}
    /\ ~scan.settings.duplex
    /\ ~scan.opened
    /\ scan.settings.scanOutputDir \in ExistingDirs
    /\ fs' = WriteFile(fs, tempFilePath(scan), 0, now)
    /\ scan' = [scan EXCEPT !.opened = TRUE]
    /\ reply' = Quiet
    /\ UNCHANGED <<settings, configFile, sessions, registryVars, now, upload>>

\* scanimage writes the image to its standard output.
DeviceWrites ==
    /\ scan.pc \in {"Capturing", "Retrying"}
    /\ scan.opened
    /\ Exists(fs, tempFilePath(scan))
    /\ fs' = WriteFile(fs, tempFilePath(scan), 1, now)
    /\ reply' = Quiet
    /\ UNCHANGED <<settings, configFile, sessions, registryVars, now, scan, upload>>

\* scanimage --batch writes its next file, with an image or empty.
BatchWrites(size) ==
    /\ scan.pc = "Capturing"
    /\ scan.settings.duplex
    /\ scan.written < MaxBatch
    /\ scan.settings.scanOutputDir \in ExistingDirs
    /\ fs' = WriteFile(fs, batchFilePath(scan, scan.written + 1), size, now)
    /\ scan' = [scan EXCEPT !.written = @ + 1, !.images = @ + size]
    /\ reply' = Quiet
    /\ UNCHANGED <<settings, configFile, sessions, registryVars, now, upload>>

\* The end of a step of scanPage that left the filesystem and the request
\* of after: when scanPage returned, the scanner is marked and startPageScan
\* adds the files to the default session.  (\E over a set of one element
\* names that element.)
Continue(after) ==
    /\ scan' = after.scan
    /\ reply' = [op |-> "scanPage", sid |-> "", error |-> after.scan.result]
    /\ IF after.scan.pc = "Done" /\ after.scan.result = ""
       THEN /\ \E added \in {AddAll([fs |-> after.fs, sessions |-> sessions],
                                    settings.scanOutputDir, after.scan.files)} :
                  /\ fs' = added.fs
                  /\ sessions' = CanonicalIds(added.sessions)
            /\ IF after.scan.scanner # Null
               THEN \E marked \in {markSuccessfulScan(after.scan.scanner, now)} :
                       /\ cachedScanner' = marked.cachedScanner
                       /\ lastSuccessfulScan' = marked.lastSuccessfulScan
               ELSE UNCHANGED registryVars
       ELSE /\ fs' = after.fs
            /\ UNCHANGED <<sessions, registryVars>>
    /\ UNCHANGED <<settings, configFile, now, upload>>

\* scanPage returns the files of try.
Returned(sc, try) == [fs |-> try.fs, scan |-> Ended(sc, try.files, "")]

\* The first run of the capture command ends; scanPage goes on to its
\* return, its throw, or the await of attemptFix.  A single-sided command
\* that ends with status 0 had its output file opened.
CaptureExits(exit) ==
    /\ scan.pc = "Capturing"
    /\ (exit = "" /\ ~scan.settings.duplex) => scan.opened
    /\ \E try \in {IF scan.settings.duplex THEN TryBatch(fs, scan, exit)
                                           ELSE TryCapture(fs, scan, exit)} :
          \E after \in {IF try.error = "" THEN Returned(scan, try)
                        ELSE IF scan.settings.duplex
                             THEN duplexCatch(try.fs, scan, try.error)
                             ELSE singleCatch(try.fs, scan, try.error)} :
             Continue(after)

\* attemptFix ends: the capture is run again, or the request fails.
FixDone(steps, listing) ==
    /\ scan.pc = "Recovering"
    /\ LET fixResult == attemptFix(steps, listing, cachedScanner, lastSuccessfulScan, now)
       IN /\ scan' = afterFix(scan, fixResult)
          /\ cachedScanner' = fixResult.cachedScanner
          /\ lastSuccessfulScan' = fixResult.lastSuccessfulScan
          /\ reply' = [op |-> "scanPage", sid |-> "", error |-> scan'.result,
                       fix |-> [steps |-> steps, success |-> fixResult.success,
                                raised |-> fixResult.raised,
                                detections |-> fixResult.detections]]
    /\ UNCHANGED <<fs, settings, configFile, sessions, now, upload>>

\* The second run of the capture command ends.
RetryExits(exit) ==
    /\ scan.pc = "Retrying"
    /\ exit = "" => scan.opened
    /\ \E try \in {TryCapture(fs, scan, exit)} :
          \E after \in {IF try.error = "" THEN Returned(scan, try)
                        ELSE retryCatch(try.fs, scan, try.error)} :
             Continue(after)

\* The service starts on a fresh output directory with the settings of its
\* configuration file.
InitScan ==
    /\ settings = ConfiguredSettings
    /\ configFile = settings
    /\ fs = <<>>
    /\ sessions = <<>>
    /\ reply = [op |-> "init", sid |-> "", error |-> ""]
    /\ cachedScanner = Null
    /\ lastSuccessfulScan = Null
    /\ now = 0
    /\ scan = IdleScan
    /\ upload = IdleUpload

\* The listings the scan requests of SpecScan meet: the command fails, it
\* prints what cannot be parsed, it lists a device.
ScanListings ==
    {[error |-> "timed out", stdout |-> <<>>, stderr |-> <<>>],
     [error |-> "", stdout |-> <<TextLine>>, stderr |-> <<>>],
     [error |-> "", stdout |-> <<DeviceLine(ScannerA)>>, stderr |-> <<>>]}

\* The listings attemptFix meets: those, and one that shows another device
\* than the one the request resolved.
FixListings ==
    ScanListings \cup {[error |-> "", stdout |-> <<DeviceLine(ScannerB)>>, stderr |-> <<>>]}

DeviceUrls == {"", " ", "escl:https://192.168.178.188:443"}

\* The scan pipeline with its settings: the requests of one instant, of
\* which one gets as far as its stamp.
NextScan ==
    \/ StartScan
    \/ \E listing \in ScanListings : DetectDone(listing)
    \/ ShellOpens
    \/ DeviceWrites
    \/ \E size \in {0, 1} : BatchWrites(size)
    \/ \E exit \in Exits : CaptureExits(exit)
    \/ \E steps \in FixSteps, listing \in FixListings : FixDone(steps, listing)
    \/ \E exit \in Exits : RetryExits(exit)
    \/ GetSessions
    \/ \E b \in BOOLEAN : UpdateSettings([duplex |-> b])
    \/ \E u \in DeviceUrls : UpdateSettings([scannerDeviceUrl |-> u])
    \/ \E k \in {"", "token"} : UpdateSettings([paperlessApiToken |-> k])

SpecScan == InitScan /\ [][NextScan]_vars

\* Every external command of a request returns or is timed out: the
\* listing of detectScanners, the capture command, the commands and the
\* listing of attemptFix, the second capture command.  For the capture
\* commands the condition is put on the exits with an error, which a
\* running command always has: any exit of the command ends the await and
\* disables them, so the condition says that no await lasts forever and
\* nothing about how it ends.
ScanFairness ==
    /\ WF_vars(\E listing \in ScanListings : DetectDone(listing))
    /\ WF_vars(\E exit \in Exits \ {""} : CaptureExits(exit))
    /\ WF_vars(\E steps \in FixSteps, listing \in FixListings : FixDone(steps, listing))
    /\ WF_vars(\E exit \in Exits \ {""} : RetryExits(exit))

\* The requests and the processes a scan request meets on its way, without
\* the reads of the session store.
NextScanLive ==
    \/ StartScan
    \/ \E listing \in ScanListings : DetectDone(listing)
    \/ ShellOpens
    \/ DeviceWrites
    \/ \E size \in {0, 1} : BatchWrites(size)
    \/ \E exit \in Exits : CaptureExits(exit)
    \/ \E steps \in FixSteps, listing \in FixListings : FixDone(steps, listing)
    \/ \E exit \in Exits : RetryExits(exit)
    \/ \E b \in BOOLEAN : UpdateSettings([duplex |-> b])
    \/ \E u \in DeviceUrls : UpdateSettings([scannerDeviceUrl |-> u])

SpecScanLive == InitScan /\ [][NextScanLive]_vars /\ ScanFairness

\* The registry over hours: single-sided scans with the settings of the
\* start, whose capture succeeds or fails for good, every listing for
\* GET /api/scanners, the clock at every instant of TimePoints.
NextRegistry ==
    \/ StartScan
    \/ \E listing \in ScanListings : DetectDone(listing)
    \/ ShellOpens
    \/ DeviceWrites
    \/ \E exit \in Exits \ {NoSane} : CaptureExits(exit)
    \/ \E listing \in Listings : Detect(listing)
    \/ \E t \in TimePoints : Tick(t)

SpecRegistry == InitScan /\ [][NextRegistry]_vars

\* Recovery over hours: single-sided scans with the settings of the start,
\* every exit of the capture command, attemptFix and the second capture,
\* the clock at every instant of TimePoints.
NextRecover ==
    \/ StartScan
    \/ \E listing \in ScanListings : DetectDone(listing)
    \/ ShellOpens
    \/ DeviceWrites
    \/ \E exit \in Exits : CaptureExits(exit)
    \/ \E steps \in FixSteps, listing \in FixListings : FixDone(steps, listing)
    \/ \E exit \in Exits : RetryExits(exit)
    \/ \E t \in TimePoints : Tick(t)

SpecRecover == InitScan /\ [][NextRecover]_vars

(***************************************************************************)
(* The collection of a duplex batch: SpecBatch.                            *)
(***************************************************************************)
MaxSheets == 11      \* files the batch of SpecBatch writes

DuplexSettings == Merge(ConfiguredSettings, [duplex |-> TRUE])

\* A duplex request at the await of its batch command, which has written
\* the files 1..n, those of withImage with an image and the others empty.
BatchScan(n, withImage) ==
    [IdleScan EXCEPT !.pc = "Capturing", !.n = 1, !.settings = DuplexSettings,
                     !.scanner = ScannerA, !.scannerDevice = ScannerA.device,
                     !.timestamp = 0, !.captures = 1,
                     !.written = n, !.images = Cardinality(withImage)]

InitBatch ==
    /\ settings = DuplexSettings
    /\ configFile = settings
    /\ sessions = <<>>
    /\ reply = Quiet
    /\ cachedScanner = ScannerA
    /\ lastSuccessfulScan = Null
    /\ now = 0
    /\ \E n \in 0..MaxSheets : \E withImage \in SUBSET (1..n) :
          /\ upload = IdleUpload
          /\ scan = BatchScan(n, withImage)
          /\ fs = [p \in {batchFilePath(scan, k) : k \in 1..n} |->
                      File(IF p.name.page \in withImage THEN 1 ELSE 0, now)]

NextBatch == \E exit \in Exits : CaptureExits(exit)

SpecBatch == InitBatch /\ [][NextBatch]_vars

(***************************************************************************)
(* Claims about scanning.                                                  *)
(***************************************************************************)
\* The files that carry the stamp of the request: its temp file, its final
\* file, its batch files.
FilesOfRequest(f, sc) ==
    {p \in DOMAIN f : /\ p.dir = sc.settings.scanOutputDir
                      /\ p.name.prefix = "scan-"
                      /\ p.name.ts = sc.timestamp}

\* C2: when a scan request has ended, with files or with an error, none of
\* the files that carry its stamp (temp, final, batch) has zero bytes.
C2_NoZeroByteFileLeft ==
    scan.pc = "Done" => \A p \in FilesOfRequest(fs, scan) : fs[p].size > 0

\* C2 witness: a request failed in its second capture after the shell had
\* opened the temp file, and the temp file is gone.
C2_Witness ==
    /\ scan.pc = "Done"
    /\ scan.result = "Scan failed after fix attempt"
    /\ scan.opened
    /\ ~Exists(fs, tempFilePath(scan))

\* C5: a request has called attemptFix exactly if a capture of it failed
\* with 'no SANE devices found', whether it is single-sided or duplex.
C5_FixIffNoSaneFailure ==
    (scan.fixes > 0) <=> Includes(scan.failure, "no SANE devices found")

\* C6: a request runs the capture at most twice and attemptFix at most
\* once; it runs the capture a second time only after attemptFix succeeded;
\* after a failed attemptFix it has failed with one run; and the end of the
\* second run ends the request, as failed when the run failed.
C6_AtMostOneRetry ==
    /\ [](/\ scan.captures <= 2
          /\ scan.fixes <= 1
          /\ scan.captures = 2 => scan.fixed = "success"
          /\ scan.fixed = "failure" =>
                scan.pc = "Done" /\ scan.result # "" /\ scan.captures = 1)
    /\ [][scan.pc = "Retrying" /\ scan'.pc # "Retrying" =>
             /\ scan'.pc = "Done"
             /\ scan'.captures = 2 /\ scan'.fixes = 1
             /\ scan'.retried # "" => scan'.result # ""]_vars

\* C6 witness: a request has ended after its second capture failed with
\* 'no SANE devices found' again.
C6_Witness ==
    /\ scan.pc = "Done"
    /\ scan.captures = 2
    /\ scan.fixes = 1
    /\ scan.retried = "no SANE devices found"
    /\ scan.result # ""

\* The shell has opened the temp file of a single-sided capture and the
\* file holds no byte.
EmptyCapture ==
    /\ ~scan.settings.duplex
    /\ scan.opened
    /\ Exists(fs, tempFilePath(scan))
    /\ fs[tempFilePath(scan)].size = 0

\* C11: when a single-sided capture command, first or second run, exits
\* with status 0 and the temp file is empty, the request ends with the
\* error 'Scan failed - empty file created', the temp file is gone, there
\* is no final file, the sessions are as before, and neither attemptFix
\* nor another capture is started.
C11_EmptyCaptureFails ==
    [][/\ (scan.pc = "Capturing" /\ EmptyCapture /\ CaptureExits("")) =>
              /\ scan'.pc = "Done"
              /\ scan'.result = "Scan failed"
              /\ scan'.failure = "Scan failed - empty file created"
              /\ ~Exists(fs', tempFilePath(scan))
              /\ ~Exists(fs', finalFilePath(scan))
              /\ sessions' = sessions
              /\ scan'.fixes = scan.fixes /\ scan'.captures = scan.captures
       /\ (scan.pc = "Retrying" /\ EmptyCapture /\ RetryExits("")) =>
              /\ scan'.pc = "Done"
              /\ scan'.result = "Scan failed after fix attempt"
              /\ scan'.retried = "Scan failed - empty file created"
              /\ ~Exists(fs', tempFilePath(scan))
              /\ ~Exists(fs', finalFilePath(scan))
              /\ sessions' = sessions
              /\ scan'.fixes = scan.fixes /\ scan'.captures = scan.captures]_vars

\* C11 witness: a request ended on the empty file of its first capture,
\* with no recovery, no temp file, no final file and no page.
C11_Witness ==
    /\ scan.pc = "Done"
    /\ scan.failure = "Scan failed - empty file created"
    /\ scan.fixes = 0 /\ scan.captures = 1
    /\ ~Exists(fs, tempFilePath(scan))
    /\ ~Exists(fs, finalFilePath(scan))
    /\ sessions = <<>>

\* C12: when a single-sided request has ended in failure, its temp file
\* does not exist, whatever its size was.
C12_FailedScanLeavesNoTemp ==
    (scan.pc = "Done" /\ scan.result # "" /\ ~scan.settings.duplex) =>
        ~Exists(fs, tempFilePath(scan))

C14_BatchFilesInNumericOrder ==
    (scan.pc = "Done" /\ scan.settings.duplex /\ scan.result = "") =>
        /\ \A i, j \in 1..Len(scan.files) :
              i < j => scan.files[i].name.page < scan.files[j].name.page
        /\ Range(scan.files) = {p \in BatchFiles(fs, scan) : fs[p].size > 0}
        /\ Len(scan.files) = scan.images

\* C14 witness: a successful duplex request returned the files of the
\* pages 2 and 10, that of page 2 first.
C14_Witness ==
    /\ scan.pc = "Done" /\ scan.settings.duplex /\ scan.result = ""
    /\ \E i, j \in 1..Len(scan.files) :
          i < j /\ scan.files[i].name.page = 2 /\ scan.files[j].name.page = 10

\* C15: when the batch command of a duplex request exits with status 0,
\* the request succeeds exactly if a batch file holds an image; then it
\* returns the files with an image and the empty ones are deleted; with no
\* file that holds an image it fails for the lack of files.
C15_DuplexSucceedsIffSomeImage ==
    [][(scan.pc = "Capturing" /\ scan.settings.duplex /\ CaptureExits("")) =>
          LET nonEmpty == {p \in BatchFiles(fs, scan) : fs[p].size > 0}
              empty == {p \in BatchFiles(fs, scan) : fs[p].size = 0}
          IN /\ scan'.pc = "Done"
             /\ (scan'.result = "") <=> (nonEmpty # {})
             /\ empty \cap DOMAIN fs' = {}
             /\ scan'.result = "" =>
                    /\ Range(scan'.files) = nonEmpty
                    /\ nonEmpty \subseteq DOMAIN fs'
             /\ scan'.result # "" =>
                    scan'.failure = "Duplex scan failed - no files were created"]_vars

\* C15 witness: a duplex request succeeded with one file although its
\* batch had written an empty file as well.
C15_Witness ==
    /\ scan.pc = "Done" /\ scan.settings.duplex /\ scan.result = ""
    /\ scan.written = 2 /\ scan.images = 1
    /\ Len(scan.files) = 1
    /\ Cardinality(BatchFiles(fs, scan)) = 1

\* C16: a request that runs with a configured device override has resolved
\* no scanner by detection, gives the override to the capture command as
\* its device, and none of its steps changes the cached scanner or the
\* time of the last successful scan.
C16_OverrideLeavesRegistry ==
    [][(/\ scan.pc \in {"Capturing", "Recovering", "Retrying"}
        /\ Trim(scan.settings.scannerDeviceUrl) # "") =>
           /\ scan.scanner = Null
           /\ scan.scannerDevice = scan.settings.scannerDeviceUrl
           /\ cachedScanner' = cachedScanner
           /\ lastSuccessfulScan' = lastSuccessfulScan]_vars

\* C17: the step on which a request ends caches the scanner the request
\* resolved by detection and sets the time of the last successful scan to
\* now when the request succeeded (first capture, second capture, duplex),
\* and leaves both as they are when it failed; no other step changes the
\* time of the last successful scan.
C17_MarkedIffSucceeded ==
    [][IF scan.pc # "Done" /\ scan'.pc = "Done"
       THEN IF scan'.result = ""
            THEN scan'.scanner # Null =>
                    cachedScanner' = scan'.scanner /\ lastSuccessfulScan' = Date(now)
            ELSE cachedScanner' = cachedScanner /\ lastSuccessfulScan' = lastSuccessfulScan
       ELSE lastSuccessfulScan' = lastSuccessfulScan]_vars

\* C17 witness: a request that resolved its scanner by detection succeeded
\* in its second capture, and that scanner is marked.
C17_Witness ==
    /\ scan.pc = "Done" /\ scan.result = ""
    /\ scan.captures = 2 /\ scan.fixed = "success"
    /\ scan.scanner = ScannerA
    /\ cachedScanner = scan.scanner
    /\ lastSuccessfulScan = Date(now)

\* C27: attemptFix reports success exactly when the detectScanners it runs
\* after the remediation commands returns a scanner; however the restart
\* and the module reload end, it throws nothing and runs that
\* detectScanners once, whose cache write is the only thing it changes.
C27_FixSucceedsIffDetectFinds ==
    [][\A steps \in FixSteps, listing \in FixListings :
          FixDone(steps, listing) =>
             LET detection == detectScanners(listing, cachedScanner, lastSuccessfulScan, now)
             IN /\ reply'.fix.success <=> Len(detection.scanners) > 0
                /\ ~reply'.fix.raised
                /\ reply'.fix.detections = 1
                /\ cachedScanner' = detection.cachedScanner
                /\ (scan'.pc = "Retrying") <=> Len(detection.scanners) > 0]_vars

\* C27 witness: the restart and the module reload both failed, the
\* detection found a scanner, and the capture is being run again.
C27_Witness ==
    /\ reply.op = "scanPage" /\ "fix" \in DOMAIN reply
    /\ reply.fix.steps = [restart |-> "error", reload |-> "error"]
    /\ reply.fix.success
    /\ scan.pc = "Retrying"

\* C28: a request without device override whose detectScanners returns no
\* scanner ends with 'Scanner not available' and the error of the
\* detection; the capture command is not run, attemptFix is not called, no
\* file is created and no page is registered.
C28_NoDeviceFailsFast ==
    /\ [](scan.pc = "Detecting" => Trim(scan.settings.scannerDeviceUrl) = "")
    /\ [][\A listing \in ScanListings :
             (/\ DetectDone(listing)
              /\ Len(detectScanners(listing, cachedScanner, lastSuccessfulScan, now).scanners) = 0)
                => /\ scan'.pc = "Done"
                   /\ scan'.result = "Scanner not available"
                   /\ reply'.error = "Scanner not available"
                   /\ reply'.detail =
                         detectScanners(listing, cachedScanner, lastSuccessfulScan, now).error
                   /\ reply'.detail # ""
                   /\ scan'.captures = 0 /\ scan'.fixes = 0 /\ ~scan'.opened
                   /\ scan'.files = <<>>
                   /\ fs' = fs
                   /\ sessions' = sessions]_vars

\* C28 witness: a request was started without override, its detection
\* found nothing, and the request has ended with no capture run.
C28_Witness ==
    /\ scan.pc = "Done" /\ scan.result = "Scanner not available"
    /\ Trim(scan.settings.scannerDeviceUrl) = ""
    /\ scan.captures = 0 /\ scan.fixes = 0
    /\ reply.op = "scanPage" /\ reply.error = "Scanner not available"

\* The capture command of the request is running.
CaptureInFlight == scan.pc \in {"Capturing", "Retrying"}

\* C29: while the capture command of a request runs, single-sided or
\* duplex, no file of the request is in the output directory under a
\* recognized scan name, and a get or list that runs meanwhile neither
\* lists nor deletes a file of the request.
C29_CaptureInvisibleUntilComplete ==
    /\ [](CaptureInFlight => \A p \in FilesOfRequest(fs, scan) : ~IsScanFile(p.name))
    /\ [][(CaptureInFlight /\ reply'.op = "getSessions") =>
             \A p \in FilesOfRequest(fs, scan) :
                /\ p \in DOMAIN fs'
                /\ p \notin Range(FilesView(Pages(sessions', "default")))]_vars

\* The state of the request's state machine: Idle before a request and
\* between requests, ResolvingDevice during detectScanners, Capturing during
\* the first and the second run of the capture command, Recovering during
\* attemptFix, Finalizing when scanPage returned files, Failed when it threw.
MachineState(sc) ==
    CASE sc.pc = "Idle" -> "Idle"
      [] sc.pc = "Detecting" -> "ResolvingDevice"
      [] sc.pc = "Capturing" -> "Capturing"
      [] sc.pc = "Recovering" -> "Recovering"
      [] sc.pc = "Retrying" -> "Capturing(retry)"
      [] sc.pc = "Done" -> IF sc.result = "" THEN "Finalizing" ELSE "Failed"

\* The transitions of the state machine as the specification draws it.  A
\* request with a device override resolves its device without an await, so
\* it is first seen in Capturing.
DrawnTransitions ==
    {<<"Idle", "ResolvingDevice">>, <<"Idle", "Capturing">>,
     <<"ResolvingDevice", "Capturing">>,
     <<"Capturing", "Finalizing">>, <<"Capturing", "Failed">>, <<"Capturing", "Recovering">>,
     <<"Recovering", "Capturing(retry)">>, <<"Recovering", "Failed">>,
     <<"Capturing(retry)", "Finalizing">>, <<"Capturing(retry)", "Failed">>}

\* A request that has ended leaves the machine idle for the next one.
FromState(sc) ==
    IF MachineState(sc) \in {"Finalizing", "Failed"} THEN "Idle" ELSE MachineState(sc)

ScanInFlight == scan.pc \in {"Detecting", "Capturing", "Recovering", "Retrying"}

\* C31 as stated: every request ends, in Finalizing or in Failed; its steps
\* are transitions the state machine draws; Recovering is entered at most
\* once.
C31_RequestFollowsMachineAndEnds ==
    /\ [][scan' # scan /\ MachineState(scan') # MachineState(scan) =>
             <<FromState(scan), MachineState(scan')>> \in DrawnTransitions]_vars
    /\ [](scan.fixes <= 1)
    /\ (ScanInFlight ~> scan.pc = "Done")

\* C31 amended: the same, the machine having one more transition, from
\* ResolvingDevice to Failed, taken when the detection returns no scanner.
C31_RequestFollowsMachineWithDetectFailure ==
    /\ [][scan' # scan /\ MachineState(scan') # MachineState(scan) =>
             <<FromState(scan), MachineState(scan')>>
                 \in DrawnTransitions \cup {<<"ResolvingDevice", "Failed">>}]_vars
    /\ [][MachineState(scan') = "Recovering" /\ MachineState(scan) # "Recovering"
             => scan.fixes = 0 /\ scan'.fixes = 1]_vars
    /\ [](scan.fixes <= 1)
    /\ (ScanInFlight ~> scan.pc = "Done")

\* C31 witness: a request went through Recovering and the second capture
\* and ended in Finalizing.
C31_Witness ==
    /\ scan.pc = "Done" /\ scan.result = ""
    /\ scan.fixes = 1 /\ scan.captures = 2

\* C35: no session lists a file twice; the step in which a scan returns
\* its files and startPageScan registers them leaves each of them exactly
\* once in the default session, whose page count grows by the number of
\* files scanned.
C35_NoFileListedTwice ==
    /\ [](\A sid \in DOMAIN sessions : \A i, j \in 1..Len(sessions[sid]) :
             sessions[sid][i].filepath = sessions[sid][j].filepath => i = j)
    /\ [][(scan.pc \in {"Capturing", "Retrying"} /\ scan'.pc = "Done" /\ scan'.result = "") =>
             /\ Len(Pages(sessions', "default"))
                   = Len(Pages(sessions, "default")) + Len(scan'.files)
             /\ \A k \in 1..Len(scan'.files) :
                   Cardinality({i \in 1..Len(Pages(sessions', "default")) :
                                   Pages(sessions', "default")[i].filepath = scan'.files[k]}) = 1]_vars

\* The ids of the pages a read of the session has just returned.
IdsRead(sid) ==
    IF reply.op \in {"getSession", "getSessions"} /\ reply.error = ""
    THEN {pg.id : pg \in Range(Pages(sessions, sid))} ELSE {}

\* C36: the removePage or the reorder that follows a read of a session,
\* called with ids that read returned, never answers 'Page not found'.
C36_IdsOfAReadStayValid ==
    [][\A sid \in SessionIds :
          /\ \A i \in IdsRead(sid) :
                RemovePage(sid, IdArg(i)) => reply'.error # "Page not found"
          /\ \A ids \in IdLists(sid) :
                (Reorder(sid, ids) /\ Range(ids) \subseteq IdsRead(sid))
                    => reply'.error # "Page not found"]_vars

\* C37: the get that follows a successful reorder of a session sees the
\* pages in the order the reorder left, the default session included.
C37_ReorderedOrderIsRead ==
    [][\A sid \in SessionIds :
          (/\ reply.op = "reorder" /\ reply.sid = sid /\ reply.error = ""
           /\ GetSession(sid))
              => FilesView(Pages(sessions', sid)) = FilesView(Pages(sessions, sid))]_vars

\* C37 for the sessions that are not rebuilt from the directory.
C37_ReorderedOrderIsReadOffDefault ==
    [][\A sid \in SessionIds \ {"default"} :
          (/\ reply.op = "reorder" /\ reply.sid = sid /\ reply.error = ""
           /\ GetSession(sid))
              => FilesView(Pages(sessions', sid)) = FilesView(Pages(sessions, sid))]_vars

\* One list holds the elements of the other, each as many times.
IsPermutation(a, b) ==
    /\ Len(a) = Len(b)
    /\ \A x \in Range(a) \cup Range(b) :
          Cardinality({i \in 1..Len(a) : a[i] = x}) = Cardinality({i \in 1..Len(b) : b[i] = x})

\* C38: a reorder that returns success leaves the session with a
\* permutation of the pages it found (the list as the reload at its start
\* leaves it): it drops no page and lists none twice.
C38_ReorderKeepsPages ==
    [][(reply'.op = "reorder" /\ reply'.error = "") =>
          \A sid \in {reply'.sid} : \A ids \in IdLists(sid) :
             Reorder(sid, ids) =>
                IsPermutation(FilesView(Pages(sessions', sid)),
                              FilesView(Pages(LoadResult(fs, sessions, settings.scanOutputDir).sessions, sid)))]_vars

\* C40: a settings update that is answered with a validation error leaves
\* the settings in memory and the configuration file as they were.
C40_RejectedUpdateChangesNothing ==
    [][(reply'.op = "settings" /\ reply'.error = "Validation failed") =>
          settings' = settings /\ configFile' = configFile]_vars

(***************************************************************************)
(* Claims about the registry.                                              *)
(***************************************************************************)
\* A descriptor is cached and the latest successful scan is less than one
\* hour old.
FreshCache ==
    /\ cachedScanner # Null
    /\ lastSuccessfulScan # Null
    /\ now - lastSuccessfulScan.time < 3600000

\* C3: with a fresh cache, a detection that fails in any of the four ways
\* answers with the cached descriptor alone and without an error.
C3_FreshCacheCoversEveryFailure ==
    (reply.op = "detect" /\ reply.listed # "" /\ FreshCache) =>
        reply.scanners = <<cachedScanner>> /\ reply.error = ""

\* C4: lastSuccessfulScan is the time T of the latest markSuccessfulScan,
\* which a scan that returns with a detected scanner calls and nothing
\* else; the lookup at time t yields a descriptor exactly if there is such
\* a T and t - T < 1 hour; and so does the fall-back of a detection whose
\* listing command fails, prints the message, or prints nothing.
C4_TrustedForLessThanOneHour ==
    /\ [][IF scan.pc # "Done" /\ scan'.pc = "Done" /\ scan'.result = "" /\ scan'.scanner # Null
          THEN lastSuccessfulScan' = [time |-> now]
          ELSE lastSuccessfulScan' = lastSuccessfulScan]_vars
    /\ [](getCachedScanner(cachedScanner, lastSuccessfulScan, now) # Null
            <=> (lastSuccessfulScan # Null /\ now - lastSuccessfulScan.time < 3600000))
    /\ []((reply.op = "detect" /\ reply.listed \in {"command", "message", "empty"}) =>
            (reply.scanners # <<>>
               <=> (lastSuccessfulScan # Null /\ now - lastSuccessfulScan.time < 3600000)))

\* C18: no detection, of GET /api/scanners or of a scan request, changes
\* the time of the last successful scan, whatever it finds; so a listing
\* that shows devices when that time is missing or an hour old leaves the
\* cache untrusted.
C18_DetectKeepsLastSuccess ==
    /\ [][(reply'.op = "detect" \/ scan.pc = "Detecting") =>
             lastSuccessfulScan' = lastSuccessfulScan]_vars
    /\ []((/\ reply.op = "detect" /\ reply.listed = ""
           /\ (lastSuccessfulScan = Null \/ now - lastSuccessfulScan.time >= 3600000)) =>
             getCachedScanner(cachedScanner, lastSuccessfulScan, now) = Null)

\* C18 witness: an hour after the last successful scan a listing showed a
\* device, and the time of the last successful scan is still that of the
\* scan.
C18_Witness ==
    /\ reply.op = "detect" /\ reply.listed = "" /\ reply.scanners # <<>>
    /\ cachedScanner = reply.scanners[1]
    /\ lastSuccessfulScan # Null
    /\ now - lastSuccessfulScan.time >= 3600000

\* C19: without a fresh cache, a detection whose listing carries the
\* no-scanners message, or prints output of which no line parses, returns
\* no scanner and an error that begins 'No scanners detected'.
C19_NoDeviceNoCacheSaysNoScanners ==
    (reply.op = "detect" /\ reply.listed \in {"message", "unparsed"} /\ ~FreshCache) =>
        reply.scanners = <<>> /\ reply.error = "No scanners detected"

\* C4 witness: exactly one hour after the latest successful scan a
\* detection whose listing command failed got no descriptor.
C4_Witness ==
    /\ reply.op = "detect"
    /\ reply.listed = "command"
    /\ lastSuccessfulScan # Null
    /\ now - lastSuccessfulScan.time = 3600000
    /\ reply.scanners = <<>>

\* C32: a detection that falls back to the cache returns the descriptor
\* most recently passed to markSuccessfulScan.  While the latest request
\* stands ended with files and a detected scanner, that descriptor is the
\* scanner of the request.
C32_FallbackIsLastScannedDevice ==
    (/\ reply.op = "detect" /\ reply.listed # "" /\ reply.scanners # <<>>
     /\ scan.pc = "Done" /\ scan.result = "" /\ scan.scanner # Null)
        => reply.scanners = <<scan.scanner>>

\* C33: attemptFix reports success, and scanPage runs the capture command
\* again, only when the listing attemptFix ran shows a device.
C33_FixNeedsListedDevice ==
    [][\A steps \in FixSteps, listing \in FixListings :
          (FixDone(steps, listing) /\ FailureOf(listing) # "")
             => ~reply'.fix.success /\ scan'.pc # "Retrying"]_vars

(***************************************************************************)
(* combineSessionPages and combineAndUpload: SpecCombine.                  *)
(* One combine-and-upload request is followed at a time; its awaits are    *)
(* the points at which other requests take their steps.  The merge holds   *)
(* the page array it read at its start; the requests interleaved with it   *)
(* are those that replace a session's array (get, clear), not those that   *)
(* write into it.                                                          *)
(***************************************************************************)
MaxUploads == 1      \* combine-and-upload requests in one behaviour

\* `combined-${sessionId}-` and `${sessionId}-` for the session ids of the
\* model.
CombinedPrefix(sessionId) ==
    CASE sessionId = "default" -> "combined-default-"
      [] sessionId = "s1" -> "combined-s1-"

SessionPrefix(sessionId) ==
    CASE sessionId = "default" -> "default-"
      [] sessionId = "s1" -> "s1-"

\* `${prefix}-${timestamp}.pdf`
OutputName(prefix, ts) == [prefix |-> prefix, ts |-> ts, page |-> 0, ext |-> "pdf", tmp |-> FALSE]

\* A combined document: its content is the list of the page files whose
\* content it holds.
WriteCombined(f, p, content, mtime) ==
    [q \in DOMAIN f \cup {p} |->
        IF q = p THEN [size |-> 1, mtime |-> mtime, content |-> content] ELSE f[q]]

\* What a merge tool that did not finish may leave at its output path.
WritePartial(f, p, mtime) ==
    [q \in DOMAIN f \cup {p} |->
        IF q = p THEN [size |-> 0, mtime |-> mtime, content |-> <<>>] ELSE f[q]]

\* PDFDocument.load(fs.readFileSync(filepath)) returns for the bytes of a
\* PDF document and throws for any other bytes.  A scan file holds what
\* scanimage wrote in the format of its extension.
LoadsAsPdf(f, p) == p.name.ext = "pdf" /\ f[p].size # 0

\* img2pdf reads images.
IsImage(f, p) == p.name.ext \in {"tiff", "png", "jpeg", "jpg"} /\ f[p].size # 0

\* The loop of combinePdfPages from index k: `continue` over the files that
\* do not exist.
RECURSIVE SkipMissing(_, _, _)
SkipMissing(f, files, k) ==
    IF k > Len(files) \/ Exists(f, files[k]) THEN k ELSE SkipMissing(f, files, k + 1)

\* A merge that threw.
Thrown(m, message) == [m EXCEPT !.pc = "Done", !.result = message]

\* The loop of combinePdfPages for which a missing page file is fatal.
pdfLoopMissingIsFatal(f, m, t) ==
    IF m.k > Len(m.pages)
    THEN [m EXCEPT !.pc = "Saving",
                   !.combinedPath = Path(m.dir, OutputName(CombinedPrefix(m.sid), t))]
    ELSE IF Exists(f, m.pages[m.k]) /\ LoadsAsPdf(f, m.pages[m.k])
         THEN [m EXCEPT !.k = m.k + 1, !.content = Append(@, m.pages[m.k])]
         ELSE Thrown(m, "Failed to combine PDF pages")

\* combinePdfPages from one await of the loop to the next: the missing
\* files are skipped; the next existing file is read and loaded, and its
\* pages are copied; after the last page the output is named after the
\* time and the document is saved.
pdfLoop(f, m, t) ==
    LET k == SkipMissing(f, m.pages, m.k)
    IN IF k > Len(m.pages)
       THEN [m EXCEPT !.pc = "Saving", !.k = k,
                      !.combinedPath = Path(m.dir, OutputName(CombinedPrefix(m.sid), t))]
       ELSE IF LoadsAsPdf(f, m.pages[k])
            THEN [m EXCEPT !.k = k + 1, !.content = Append(@, m.pages[k])]
            ELSE Thrown(m, "Failed to combine PDF pages")

\* combinePdfPages up to `await PDFDocument.create()`.
combinePdfPages(m) == [m EXCEPT !.pc = "Merging", !.k = 1]

\* combineTiffPages up to `await execAsync(cmd)`.
combineTiffPages(f, m, t) ==
    LET inputFiles == SelectSeq(m.pages, LAMBDA p : Exists(f, p))
        prefix == IF Len(inputFiles) > 1 THEN CombinedPrefix(m.sid) ELSE SessionPrefix(m.sid)
    IN IF Len(inputFiles) = 0
       THEN Thrown(m, "Failed to combine TIFF pages into PDF")
       ELSE [m EXCEPT !.pc = "Merging", !.inputFiles = inputFiles,
                      !.combinedPath = Path(m.dir, OutputName(prefix, t))]

\* combineSessionPages up to its first await: the filesystem and the
\* sessions after getSession, and the merge begun.
combineSessionPages(f, ss, st, sessionId, t) ==
    LET L == LoadResult(f, ss, st.scanOutputDir)
        format == IF st.outputFormat = "" THEN "pdf" ELSE st.outputFormat
        m == [IdleUpload EXCEPT !.sid = sessionId, !.format = format, !.dir = st.scanOutputDir,
                                !.pages = FilesView(Pages(L.sessions, sessionId)),
                                !.started = DOMAIN L.fs,
                                !.listed = PagesView(L.sessions, sessionId)]
    IN [fs |-> L.fs, sessions |-> L.sessions,
        merge |-> IF Len(Pages(L.sessions, sessionId)) = 0 THEN Thrown(m, "No pages to combine")
                  ELSE IF format = "tiff" THEN combineTiffPages(L.fs, m, t)
                  ELSE IF format = "pdf" THEN combinePdfPages(m)
                  ELSE Thrown(m, "Combining is not supported for this format")]

\* img2pdf that consumes its input files.
img2pdfRemovingInputs(f, m, outcome, t) ==
    IF outcome = "ok" THEN UnlinkAll(WriteCombined(f, m.combinedPath, m.inputFiles, t), Range(m.inputFiles))
    ELSE IF outcome = "partial" THEN WritePartial(f, m.combinedPath, t)
    ELSE f

\* The filesystem after `img2pdf <inputFiles> -o <outputPath>` ended:
\*   ok       status 0, the output holds the input images in order
\*   failed   non-zero status or killed at the timeout, no output
\*   partial  non-zero status or killed at the timeout, output begun
img2pdf(f, m, outcome, t) ==
    IF outcome = "ok" THEN WriteCombined(f, m.combinedPath, m.inputFiles, t)
    ELSE IF outcome = "partial" THEN WritePartial(f, m.combinedPath, t)
    ELSE f

\* combineAndUpload after the upload that clears the session whether the
\* upload succeeded or not.
afterUploadAlwaysClears(f, ss, dir, m, ok, failing) ==
    LET c == clearSession(Unlink(f, m.combinedPath), ss, dir, m.sid, failing)
    IN [fs |-> c.fs, sessions |-> c.sessions,
        result |-> IF ok THEN "ok" ELSE "upload failed"]

\* combineAndUpload after `await paperlessAPI.uploadDocument(combinedPath)`:
\* a rejected upload goes to the catch; otherwise the combined file is
\* unlinked and the session cleared.
afterUpload(f, ss, dir, m, ok, failing) ==
    IF ~ok THEN [fs |-> f, sessions |-> ss, result |-> "upload failed"]
    ELSE IF ~Exists(f, m.combinedPath)
         THEN [fs |-> f, sessions |-> ss, result |-> "ENOENT"]
         ELSE LET c == clearSession(Unlink(f, m.combinedPath), ss, dir, m.sid, failing)
              IN [fs |-> c.fs, sessions |-> c.sessions, result |-> "ok"]

storeFrame == <<settings, configFile, cachedScanner, lastSuccessfulScan, now, scan>>

\* POST /api/combine-upload: combineAndUpload up to its first await.
CombineUpload(sid) ==
    /\ upload.pc \in {"Idle", "Done"}
    /\ upload.n < MaxUploads
    /\ \E L \in {LoadResult(fs, sessions, settings.scanOutputDir)} :
          IF Len(Pages(L.sessions, sid)) = 0
          THEN /\ fs' = L.fs
               /\ sessions' = CanonicalIds(L.sessions)
               /\ upload' = [IdleUpload EXCEPT !.pc = "Done", !.n = upload.n + 1, !.sid = sid,
                                               !.started = DOMAIN L.fs,
                                               !.result = "No pages to upload"]
          ELSE \E r \in {combineSessionPages(L.fs, L.sessions, settings, sid, now)} :
                  /\ fs' = r.fs
                  /\ sessions' = CanonicalIds(r.sessions)
                  /\ upload' = [r.merge EXCEPT !.n = upload.n + 1]
    /\ reply' = [op |-> "combineUpload", sid |-> sid, error |-> ""]
    /\ UNCHANGED storeFrame

\* An await of pdf-lib inside combinePdfPages returns.
MergePage ==
    /\ upload.pc = "Merging" /\ upload.format = "pdf"
    /\ upload' = pdfLoop(fs, upload, now)
    /\ reply' = Quiet
    /\ UNCHANGED <<fs, sessions, storeFrame>>

\* combinedPdf.save() returns: writeFileSync(outputPath), and
\* combineAndUpload starts the upload.
MergeSave ==
    /\ upload.pc = "Saving"
    /\ fs' = WriteCombined(fs, upload.combinedPath, upload.content, now)
    /\ upload' = [upload EXCEPT !.pc = "Uploading"]
    /\ reply' = Quiet
    /\ UNCHANGED <<sessions, storeFrame>>

\* img2pdf ends.  It can end well only if its inputs are there to be read.
MergeDone(outcome) ==
    /\ upload.pc = "Merging" /\ upload.format = "tiff"
    /\ outcome = "ok" => \A p \in Range(upload.inputFiles) : Exists(fs, p) /\ IsImage(fs, p)
    /\ fs' = img2pdf(fs, upload, outcome, now)
    /\ upload' = IF outcome = "ok" THEN [upload EXCEPT !.pc = "Uploading"]
                 ELSE Thrown(upload, "Failed to combine TIFF pages into PDF")
    /\ reply' = Quiet
    /\ UNCHANGED <<sessions, storeFrame>>

\* uploadDocument returns or throws.
UploadDone(ok, failing) ==
    /\ upload.pc = "Uploading"
    /\ \E r \in {afterUpload(fs, sessions, settings.scanOutputDir, upload, ok, failing)} :
          /\ fs' = r.fs
          /\ sessions' = CanonicalIds(r.sessions)
          /\ upload' = [upload EXCEPT !.pc = "Done", !.result = r.result]
    /\ reply' = Quiet
    /\ UNCHANGED storeFrame

\* The times at which the steps of SpecCombine happen.
CombineTimes == {0, 1}

PT == Path("/tmp", ScanName(3, "tiff"))
PT2 == Path("/tmp", ScanName(4, "tiff"))

CombineFiles == {P1, P2, PT, PT2}

\* The pages a session other than the default one holds: files registered
\* by addPage, some of which may have been deleted since.
RegisteredLists == {<<>>, <<P1>>, <<PT>>, <<P1, P2>>, <<P2, P1>>, <<P1, PT>>, <<PT2, PT>>}

Registered(files) ==
    [i \in 1..Len(files) |->
        [id |-> 100 + i, filename |-> files[i].name, filepath |-> files[i],
         timestamp |-> files[i].name.ts, size |-> 1, pageNumber |-> i]]

InitCombine ==
    /\ \E fmt \in {"pdf", "tiff"} : settings = Merge(ConfiguredSettings, [outputFormat |-> fmt])
    /\ configFile = settings
    /\ \E D \in SUBSET CombineFiles : \E files \in RegisteredLists :
          LET f == [p \in D |-> File(1, p.name.ts)]
              L == LoadResult(f, IF files = <<>> THEN <<>> ELSE [s \in {"s1"} |-> Registered(files)],
                              settings.scanOutputDir)
          IN /\ Cardinality(D) <= 2
             /\ fs = L.fs
             /\ sessions = CanonicalIds(L.sessions)
    /\ reply = [op |-> "init", sid |-> "", error |-> ""]
    /\ cachedScanner = Null
    /\ lastSuccessfulScan = Null
    /\ now = 0
    /\ scan = IdleScan
    /\ upload = IdleUpload

NextCombine ==
    \/ \E sid \in SessionIds : CombineUpload(sid)
    \/ MergePage
    \/ MergeSave
    \/ \E outcome \in {"ok", "failed", "partial"} : MergeDone(outcome)
    \/ \E ok \in BOOLEAN, failing \in {{}, {P1}} : UploadDone(ok, failing)
    \/ GetSessions
    \/ \E sid \in SessionIds : Clear(sid, {})
    \/ UpdateSettings([outputFormat |-> "png"])
    \/ \E t \in CombineTimes : Tick(t)

SpecCombine == InitCombine /\ [][NextCombine]_vars

\* A combine-and-upload request while a scan is in flight: POST /scan
\* starts startPageScan without awaiting it, so the capture command of a
\* single-sided request can end at any await of combineAndUpload.  The
\* request of the initial states has resolved its scanner, its command has
\* written the temp file and is about to exit.
ScanInFlightAt(st, ts) ==
    [IdleScan EXCEPT !.pc = "Capturing", !.n = 1, !.settings = st,
                     !.scanner = ScannerA, !.scannerDevice = ScannerA.device,
                     !.timestamp = ts, !.captures = 1, !.opened = TRUE]

InitCombineScan ==
    /\ \E fmt \in {"pdf", "tiff"} : settings = Merge(ConfiguredSettings, [outputFormat |-> fmt])
    /\ configFile = settings
    /\ scan = ScanInFlightAt(settings, 5)
    /\ \E D \in SUBSET CombineFiles : \E files \in RegisteredLists :
          LET f == [p \in D |-> File(1, p.name.ts)]
              L == LoadResult(f, IF files = <<>> THEN <<>> ELSE [s \in {"s1"} |-> Registered(files)],
                              settings.scanOutputDir)
          IN /\ Cardinality(D) <= 2
             /\ fs = WriteFile(L.fs, tempFilePath(scan), 1, 0)
             /\ sessions = CanonicalIds(L.sessions)
    /\ reply = [op |-> "init", sid |-> "", error |-> ""]
    /\ cachedScanner = Null
    /\ lastSuccessfulScan = Null
    /\ now = 0
    /\ upload = IdleUpload

NextCombineScan ==
    \/ \E sid \in SessionIds : CombineUpload(sid)
    \/ MergePage
    \/ MergeSave
    \/ \E outcome \in {"ok", "failed"} : MergeDone(outcome)
    \/ \E ok \in BOOLEAN : UploadDone(ok, {})
    \/ \E exit \in {"", "scanimage: sane_start: Invalid argument"} : CaptureExits(exit)

SpecCombineScan == InitCombineScan /\ [][NextCombineScan]_vars

(***************************************************************************)
(* Claims about combining.                                                 *)
(***************************************************************************)

\* The page files of the merge in flight that exist.
ExistingPages == {p \in Range(upload.pages) : Exists(fs, p)}

\* The structured merge returns: combinePdfPages has written its output.
PdfMergeReturns ==
    upload.format = "pdf" /\ upload.pc = "Saving" /\ upload'.pc = "Uploading"

\* The written output holds exactly the pages that still exist, each of
\* which existed when the merge began, in the order of the page list.
OutputHoldsExistingPages ==
    LET out == fs'[upload.combinedPath].content
    IN /\ Exists(fs', upload.combinedPath)
       /\ ExistingPages \subseteq Range(out)
       /\ Range(out) \subseteq upload.started
       /\ out = SelectSeq(upload.pages, LAMBDA p : p \in Range(out))

\* C23 as stated: on the PDF path a merge that holds at least one existing
\* page file does not raise, whatever files are missing, and its output
\* holds the content of exactly the existing pages in page order.
C23_PdfMergeSkipsMissing ==
    [][/\ (upload.format = "pdf" /\ upload.pc = "Merging" /\ ExistingPages # {})
               => upload'.pc # "Done"
       /\ PdfMergeReturns => OutputHoldsExistingPages]_vars

\* C23 amended: the same, for a merge every existing page file of which is
\* a PDF document; an existing page file that is no PDF document makes the
\* merge raise.
C23_PdfMergeSkipsMissingLoadsPdf ==
    [][/\ (/\ upload.format = "pdf" /\ upload.pc = "Merging" /\ ExistingPages # {}
           /\ \A p \in ExistingPages : LoadsAsPdf(fs, p))
               => upload'.pc # "Done"
       /\ (/\ upload.format = "pdf" /\ upload.pc = "Merging" /\ upload' # upload
           /\ SkipMissing(fs, upload.pages, upload.k) <= Len(upload.pages)
           /\ ~LoadsAsPdf(fs, upload.pages[SkipMissing(fs, upload.pages, upload.k)]))
               => upload'.pc = "Done" /\ upload'.result = "Failed to combine PDF pages"
       /\ PdfMergeReturns => OutputHoldsExistingPages]_vars

\* C23 witness: the merge of the pages P1, P2, of which P1 is missing, has
\* returned an output that holds P2 alone.
C23_Witness ==
    /\ upload.format = "pdf" /\ upload.pc = "Uploading"
    /\ upload.pages = <<P1, P2>>
    /\ ~Exists(fs, P1) /\ Exists(fs, P2)
    /\ Exists(fs, upload.combinedPath)
    /\ fs[upload.combinedPath].content = <<P2>>

\* The combined outputs that exist.
CombinedOutputs ==
    {p \in DOMAIN fs : p.name.prefix \in {"combined-default-", "combined-s1-", "default-", "s1-"}}

\* The merge began on a page list none of whose files existed.
NoPageFileAtStart ==
    upload.pc # "Idle" /\ upload.pages # <<>> /\ Range(upload.pages) \cap upload.started = {}

CombineErrors ==
    {"No pages to combine", "Combining is not supported for this format",
     "Failed to combine PDF pages", "Failed to combine TIFF pages into PDF"}

\* C24: a merge none of whose page files exists does not return an output
\* but fails, on the PDF path and on the TIFF path, and a merge that failed,
\* the external tool's failure and timeout included, leaves no combined
\* output in the output directory.
C24_CombineFailureLeavesNoOutput ==
    /\ NoPageFileAtStart =>
          /\ upload.pc \notin {"Saving", "Uploading"}
          /\ upload.result \notin {"ok", "upload failed"}
          /\ CombinedOutputs = {}
    /\ (upload.pc = "Done" /\ upload.result \in CombineErrors) => CombinedOutputs = {}

\* A step of the merge itself: of the loop of combinePdfPages, of its save,
\* or the end of img2pdf.
MergeStep == upload.pc \in {"Merging", "Saving"} /\ upload' # upload

\* C25: combine deletes and rewrites no page file and leaves every page
\* list and its numbers alone, whether it returns or throws; the one file
\* it may create or write is its output.  Its first stretch is compared with
\* the state in which combineAndUpload calls it, that is the state as
\* getSession left it.
C25_CombineLeavesPagesAlone ==
    [][/\ reply'.op = "combineUpload" =>
             LET L == LoadResult(fs, sessions, settings.scanOutputDir)
             IN /\ fs' = L.fs
                /\ \A sid \in SessionIds : PagesView(sessions', sid) = PagesView(L.sessions, sid)
                /\ DOMAIN sessions' = DOMAIN L.sessions
       /\ MergeStep =>
             /\ sessions' = sessions
             /\ \A p \in DOMAIN fs \ {upload'.combinedPath} : p \in DOMAIN fs' /\ fs'[p] = fs[p]
             /\ DOMAIN fs' \subseteq DOMAIN fs \cup {upload'.combinedPath}
             /\ upload'.combinedPath \notin UNION {Range(FilesView(Pages(sessions, sid))) : sid \in SessionIds}]_vars

\* C25 witness: img2pdf has merged two pages; both files are still there
\* and the session lists them as it did when the merge began.
C25_Witness ==
    /\ upload.pc = "Uploading" /\ upload.format = "tiff"
    /\ Len(upload.inputFiles) = 2
    /\ Range(upload.inputFiles) \subseteq DOMAIN fs
    /\ Exists(fs, upload.combinedPath)
    /\ PagesView(sessions, upload.sid) = upload.listed

\* C26: the only step of a combine-and-upload request that deletes a file
\* is the one after the upload returned: it leaves the session's page list
\* empty and the combined file gone.  When the request ends in a failure of
\* the merge or of the upload, every page file of the session that existed
\* still exists and get(sessionId) still lists it.
C26_PagesDeletedOnlyAfterUpload ==
    [][upload' # upload =>
          LET sid == upload'.sid
              pageFiles == {p \in Range(FilesView(Pages(sessions, sid))) : Exists(fs, p)}
              got == LoadResult(fs', sessions', settings.scanOutputDir)
          IN IF upload.pc = "Uploading" /\ upload'.result = "ok"
             THEN /\ Pages(sessions', sid) = <<>>
                  /\ ~Exists(fs', upload.combinedPath)
             ELSE /\ DOMAIN fs \subseteq DOMAIN fs'
                  /\ upload'.pc = "Done" =>
                        \A p \in pageFiles :
                           /\ Exists(got.fs, p)
                           /\ p \in Range(FilesView(Pages(got.sessions, sid)))]_vars

\* C26 witness: the upload of a merged session failed; the page files are
\* all there and the session lists them as before.
C26_Witness ==
    /\ upload.pc = "Done" /\ upload.result = "upload failed"
    /\ Len(upload.pages) = 2
    /\ Range(upload.pages) \subseteq DOMAIN fs
    /\ PagesView(sessions, upload.sid) = upload.listed

\* C34: every page file the step after a successful upload deletes is part
\* of the combined document that was uploaded.
C34_ClearDeletesOnlyUploadedPages ==
    [][(upload.pc = "Uploading" /\ upload'.pc = "Done" /\ upload'.result = "ok") =>
          \A p \in DOMAIN fs \ DOMAIN fs' :
             p = upload.combinedPath \/ p \in Range(fs[upload.combinedPath].content)]_vars

\* C39: once a combine-and-upload request whose upload returned or failed
\* has ended, no combined output is left in the output directory.
C39_NoCombinedOutputAfterRequest ==
    (upload.pc = "Done" /\ upload.result \in {"ok", "upload failed"}) => CombinedOutputs = {}

====
